---------------------------- MODULE Spec2Model ----------------------------
(***************************************************************************)
(* A model of JSBinder (src/binder.js): the expression parser and          *)
(* evaluator (ExpressionTree), the path resolver, the ChangeDetector, the  *)
(* keyed and range repeaters (#eachDirective, #forDirective) and the       *)
(* refresh pass.                                                           *)
(*                                                                         *)
(* JavaScript values are records of one shape, so that any two of them     *)
(* can be compared:                                                        *)
(*   t     the type: "undef" "null" "bool" "num" "nan" "inf" "str" "arr"   *)
(*         "obj" "error"                                                   *)
(*   n, d  a number n/d in lowest terms (d > 0); a boolean is n = 1 or 0;  *)
(*         an infinity is n = 1 or -1                                      *)
(*   s     the text of a string (or the message of a thrown error)         *)
(*   id    the identity of an array or object; 0 is an instance that was   *)
(*         allocated by the evaluation itself                              *)
(*   keys, items   the members of an object (names and values) or the      *)
(*         elements of an array                                            *)
(***************************************************************************)
EXTENDS Integers, Sequences, FiniteSets, TLC

VARIABLES
    exp,        \* the expression under test, as written in the markup
    tree,       \* ExpressionTree.#tree of the expression
    state,      \* JSBinder.#state
    functions,  \* JSBinder.#functions: the registered names
    indexMap,   \* JSBinder.#indexMap
    result,     \* the values returned by the evaluations of tree so far
    evlog,      \* the leaves resolved and functions invoked by the last evaluation
    memo,       \* a ChangeDetector: [first, current]
    checks,     \* what the ChangeDetector's check() returned, call by call
    pc,         \* the position of the expression scenario
    binding,    \* the record of a repeater: its expressions, keys and objs
    dom,        \* the nodes between the markers of the repeater, in document order
    created,    \* the number of nodes deserialized so far; a node is its number
    events,     \* the DOM operations and jsbinder events of the last pass
    before,     \* binding.keys and binding.objs when the last pass began
    refreshed,  \* whether a pass has run since the state was last set
    calls,      \* the number of setState, scan and #mutateState calls so far
    needsRegister,    \* JSBinder.#needsRegister
    needsRefresh,     \* JSBinder.#needsRefresh
    microtaskQueued,  \* JSBinder.#microtaskQueued
    microtasks, \* the callbacks of #queueTasks in the microtask queue
    task,       \* where the running callback is: "idle" when none runs
    turn,       \* the calls of the synchronous turn that runs: [sets, scans]
    job,        \* the callback that ran last: its number, its turn, the state then
    passes,     \* the passes that callbacks started, in order
    page,       \* the bindings of the directives of a page, as registered
    updated,    \* the bindings that the last pass over the page updated, in order
    handler,    \* the listener of an element with data-onchange or data-onclick
    handled,    \* what the listener's calls did, in order
    refs,       \* the objects and arrays that the code of the page holds
    root,       \* the root element: whether it carries the data-jsbinder attribute
    binders,    \* the JSBinder instances constructed on root, in order
    templates,  \* #templateDirective.#templates: key -> html
    renders,    \* the elements with data-render in the document, in document order
    rounds,     \* the #refresh calls of the pass that runs or ran last
    ifs,        \* #ifDirective.#bindings
    history,    \* what the operations of the page did so far, in order
    textContent \* the textContent of a text node that holds interpolations

exprVars == <<exp, tree, state, functions, indexMap, result, evlog, memo, checks, pc>>

repeaterVars == <<binding, dom, created, events, before, refreshed, calls>>

schedVars ==
    <<needsRegister, needsRefresh, microtaskQueued, microtasks, task, turn, job, passes>>

pageVars == <<page, updated>>

handlerVars == <<handler, handled, refs>>

documentVars == <<root, binders, templates, renders, rounds, ifs, history, textContent>>

vars == <<exprVars, repeaterVars, schedVars, pageVars, handlerVars, documentVars>>

-----------------------------------------------------------------------------
(* JavaScript values *)

Val(t, n, d, s, id, keys, items) ==
    [t |-> t, n |-> n, d |-> d, s |-> s, id |-> id, keys |-> keys, items |-> items]

Undef == Val("undef", 0, 1, "", 0, <<>>, <<>>)
Null == Val("null", 0, 1, "", 0, <<>>, <<>>)
NaN == Val("nan", 0, 1, "", 0, <<>>, <<>>)
Bool(b) == Val("bool", IF b THEN 1 ELSE 0, 1, "", 0, <<>>, <<>>)
Inf(sign) == Val("inf", sign, 1, "", 0, <<>>, <<>>)
Str(s) == Val("str", 0, 1, s, 0, <<>>, <<>>)
Arr(id, items) == Val("arr", 0, 1, "", id, <<>>, items)
Obj(id, keys, items) == Val("obj", 0, 1, "", id, keys, items)
Thrown(msg) == Val("error", 0, 1, msg, 0, <<>>, <<>>)

Abs(i) == IF i < 0 THEN -i ELSE i

RECURSIVE Gcd(_, _)
Gcd(a, b) == IF b = 0 THEN a ELSE Gcd(b, a % b)

\* The number p/q (q # 0) in lowest terms.
Frac(p, q) ==
    LET Reduced(g, sg) == Val("num", sg * (p \div g), Abs(q) \div g, "", 0, <<>>, <<>>)
    IN Reduced(Gcd(Abs(p), Abs(q)), IF q < 0 THEN -1 ELSE 1)

Num(i) == Val("num", i, 1, "", 0, <<>>, <<>>)

IsArray(x) == x.t = "arr"
IsString(x) == x.t = "str"

\* output[i] of a JavaScript array, 0-based: undefined outside the array.
At(a, i) == IF i >= 0 /\ i < Len(a) THEN a[i + 1] ELSE Undef

\* Array.prototype.splice(x, count, item) on a 0-based position.
Splice(a, x, count, item) ==
    SubSeq(a, 1, x) \o <<item>> \o SubSeq(a, x + count + 1, Len(a))

\* Array.prototype.splice(x, 1): removes one element.
RemoveAt(a, x) == SubSeq(a, 1, x) \o SubSeq(a, x + 2, Len(a))

-----------------------------------------------------------------------------
(* ExpressionTree: the parser *)

OPERATORS == {"?", ":", "(", ")", "!!", "!", "~", "<<", ">>", ">>>", "**", "*",
              "/", "%", "+", "-", ">=", ">", "<=", "<", "===", "==", "!==", "!=",
              "&", "^", "|", "&&", "||", "??"}

Letters == {"a","b","c","d","e","f","g","h","i","j","k","l","m","n","o","p","q",
            "r","s","t","u","v","w","x","y","z","A","B","C","D","E","F","G","H",
            "I","J","K","L","M","N","O","P","Q","R","S","T","U","V","W","X","Y","Z"}
Digits == {"0","1","2","3","4","5","6","7","8","9"}

\* String.prototype.substring on 1-based, inclusive positions.
Slice(s, i, j) ==
    LET Sub(from, to) == IF from > to THEN "" ELSE SubSeq(s, from, to)
    IN Sub(IF i < 1 THEN 1 ELSE i, IF j > Len(s) THEN Len(s) ELSE j)

Char(s, i) == Slice(s, i, i)

AllChars(s, set) == \A i \in 1..Len(s) : Char(s, i) \in set

\* /^#[a-zA-Z]{1}[0-9a-zA-Z_]*$/
isFunction(x) ==
    /\ IsString(x)
    /\ Len(x.s) >= 2
    /\ Char(x.s, 1) = "#"
    /\ Char(x.s, 2) \in Letters
    /\ AllChars(Slice(x.s, 3, Len(x.s)), Letters \cup Digits \cup {"_"})

isOperator(x) == IsString(x) /\ x.s \in OPERATORS

unwrapSingleArray(x) == IF IsArray(x) /\ Len(x.items) = 1 THEN x.items[1] ELSE x

\* (right to left) a "-" or "+" at the start or after an operator is a sign.
RECURSIVE SignPass(_, _)
SignPass(output, x) ==
    IF x < 0 THEN output
    ELSE IF /\ IsString(At(output, x))
            /\ At(output, x).s \in {"-", "+"}
            /\ (x = 0 \/ isOperator(At(output, x - 1)))
         THEN SignPass(Splice(output, x, 2, Arr(0, <<At(output, x), At(output, x + 1)>>)), x - 1)
         ELSE SignPass(output, x - 1)

\* (right to left) prefix operator and operand.
RECURSIVE PrefixPass(_, _)
PrefixPass(output, x) ==
    IF x < 0 THEN output
    ELSE IF IsString(At(output, x)) /\ At(output, x).s \in {"!!", "!", "~"}
         THEN PrefixPass(Splice(output, x, 2, Arr(0, <<At(output, x), At(output, x + 1)>>)), x - 1)
         ELSE PrefixPass(output, x - 1)

Triple(output, x) == Arr(0, <<At(output, x), At(output, x + 1), At(output, x + 2)>>)

\* (right to left) operand ** operand.
RECURSIVE PowerPass(_, _)
PowerPass(output, x) ==
    IF x < 0 THEN output
    ELSE IF IsString(At(output, x + 1)) /\ At(output, x + 1).s = "**"
         THEN PowerPass(Splice(output, x, 3, Triple(output, x)), x - 1)
         ELSE PowerPass(output, x - 1)

\* A wrong order of tiers: the additive operators before the multiplicative.
InfixTiersAdditiveFirst ==
    << {"+", "-"}, {"*", "/", "%"}, {"<<", ">>", ">>>"},
       {">=", ">", "<=", "<"}, {"===", "==", "!==", "!="},
       {"&"}, {"^"}, {"|"}, {"&&"}, {"||"}, {"??"} >>

\* The tiers of the left-to-right passes, tightest first.
InfixTiers == << {"*", "/", "%"}, {"+", "-"}, {"<<", ">>", ">>>"},
                 {">=", ">", "<=", "<"}, {"===", "==", "!==", "!="},
                 {"&"}, {"^"}, {"|"}, {"&&"}, {"||"}, {"??"} >>

\* (left to right) one tier: while (output.length > 3 && x <= output.length - 3).
RECURSIVE TierPass(_, _, _)
TierPass(output, ops, x) ==
    IF ~(Len(output) > 3 /\ x <= Len(output) - 3) THEN output
    ELSE IF IsString(At(output, x + 1)) /\ At(output, x + 1).s \in ops
         THEN TierPass(Splice(output, x, 3, Triple(output, x)), ops, x)
         ELSE TierPass(output, ops, x + 1)

RECURSIVE InfixPasses(_, _, _)
InfixPasses(output, tiers, i) ==
    IF i > Len(tiers) THEN output
    ELSE InfixPasses(TierPass(output, tiers[i], 0), tiers, i + 1)

\* (right to left) condition ? then : else.
RECURSIVE TernaryPass(_, _)
TernaryPass(output, x) ==
    IF x < 0 THEN output
    ELSE IF At(output, x + 1) = Str("?") /\ At(output, x + 3) = Str(":")
         THEN TernaryPass(
                 Splice(output, x, 5,
                        Arr(0, <<At(output, x), Str("?"), At(output, x + 2),
                                 Str(":"), At(output, x + 4)>>)),
                 x - 1)
         ELSE TernaryPass(output, x - 1)

\* The passes of recurse() over the collected output, in the order of the code.
Group(output) ==
    LET Signs(o) == SignPass(o, Len(o) - 2)
        Prefixes(o) == PrefixPass(o, Len(o) - 2)
        Powers(o) == PowerPass(o, Len(o) - 3)
        Ternaries(o) == TernaryPass(o, Len(o) - 5)
        Single(o) == IF Len(o) = 1 /\ IsArray(o[1]) THEN o[1] ELSE Arr(0, o)
    IN Single(Ternaries(InfixPasses(Powers(Prefixes(Signs(output))), InfixTiers, 1)))

\* String.prototype.indexOf(sub, from), 1-based; 0 when sub does not occur.
RECURSIVE IndexFrom(_, _, _)
IndexFrom(s, sub, i) ==
    IF i + Len(sub) - 1 > Len(s) THEN 0
    ELSE IF Slice(s, i, i + Len(sub) - 1) = sub THEN i
    ELSE IndexFrom(s, sub, i + 1)

\* String.prototype.replace(text, by) with a string pattern: the first occurrence.
ReplaceFirst(s, text, by) ==
    LET At1(i) == IF i = 0 THEN s
                  ELSE Slice(s, 1, i - 1) \o by \o Slice(s, i + Len(text), Len(s))
    IN At1(IndexFrom(s, text, 1))

\* The matches of /'[^']*'|"[^"]*"/g from position i on, in order.
RECURSIVE StringLiterals(_, _)
StringLiterals(s, i) ==
    IF i > Len(s) THEN <<>>
    ELSE LET Closed(close) ==
                 IF close = 0 THEN StringLiterals(s, i + 1)
                 ELSE <<Slice(s, i, close)>> \o StringLiterals(s, close + 1)
         IN Closed(IF Char(s, i) \in {"'", "\""}
                   THEN IndexFrom(s, Char(s, i), i + 1) ELSE 0)

\* "..." and '...' >> "{{str#index#}}", each replacing the first occurrence of
\* its text in the expression as rewritten so far.
RECURSIVE MaskStrings(_, _, _)
MaskStrings(s, lits, k) ==
    IF k > Len(lits) THEN s
    ELSE MaskStrings(ReplaceFirst(s, lits[k], "{{str" \o ToString(k - 1) \o "}}"), lits, k + 1)

\* JSBinder.#fromBrackets: the contents of the outermost [...] of str.
RECURSIVE fromBrackets(_, _, _, _)
fromBrackets(str, i, start, depth) ==
    IF i > Len(str) THEN <<>>
    ELSE IF Char(str, i) = "[" THEN
         fromBrackets(str, i + 1, IF depth = 0 THEN i ELSE start, depth + 1)
    ELSE IF Char(str, i) = "]" THEN
         IF depth - 1 = 0 /\ start # -1
         THEN <<Slice(str, start + 1, i - 1)>> \o fromBrackets(str, i + 1, -1, 0)
         ELSE fromBrackets(str, i + 1, start, depth - 1)
    ELSE fromBrackets(str, i + 1, start, depth)

\* /^\{([a-zA-Z0-9_]+)\}$/
IsIndexKey(x) ==
    /\ Len(x) >= 3
    /\ Char(x, 1) = "{"
    /\ Char(x, Len(x)) = "}"
    /\ AllChars(Slice(x, 2, Len(x) - 1), Letters \cup Digits \cup {"_"})

\* /^\d+$/
IsDigits(x) == Len(x) >= 1 /\ AllChars(x, Digits)

\* JSBinder.#getInnerExpressions: "months[m - 1]" >> ["m - 1"]
getInnerExpressions(str) ==
    LET NotKey(x) == ~IsIndexKey(x)
        NotInt(x) == ~IsDigits(x)
    IN SelectSeq(SelectSeq(fromBrackets(str, 1, -1, 0), NotKey), NotInt)

\* "[...]" >> "[{{exp#index#}}]"
RECURSIVE MaskInner(_, _, _)
MaskInner(s, inner, k) ==
    IF k > Len(inner) THEN s
    ELSE MaskInner(ReplaceFirst(s, "[" \o inner[k] \o "]",
                                "[{{exp" \o ToString(k - 1) \o "}}]"), inner, k + 1)

\* The operator lexemes of the split, in the order of the regular expression's
\* alternatives: at a position the first alternative that matches is taken.
SplitLexemes == << ">>>", "===", "!==", "!!", "<<", ">>", "**", ">=", "<=", "==",
                   "!=", "&&", "||", "??", "?", ":", "(", ")", "!", "~", "*", "/",
                   "%", "+", "-", ">", "<", "&", "^", "|" >>

LexemeAt(s, i) ==
    LET First(lexemes, hits) ==
            IF hits = {} THEN ""
            ELSE lexemes[CHOOSE k \in hits : \A j \in hits : k <= j]
        Hits(lexemes) ==
            First(lexemes, { k \in 1..Len(lexemes) :
                                Slice(s, i, i + Len(lexemes[k]) - 1) = lexemes[k] })
    IN Hits(SplitLexemes)

Whitespace == {" "}

\* exp.replace(/(>>>|...)/g, " $1 ").trim().split(/\s+/): cur is the part
\* being read.  An expression with no part at all splits to [""].
RECURSIVE SplitFrom(_, _, _)
SplitFrom(s, i, cur) ==
    LET Step(flush, c, lexeme) ==
            IF i > Len(s) THEN flush
            ELSE IF c \in Whitespace THEN flush \o SplitFrom(s, i + 1, "")
            ELSE IF lexeme # "" THEN
                 flush \o <<lexeme>> \o SplitFrom(s, i + Len(lexeme), "")
            ELSE SplitFrom(s, i + 1, cur \o c)
    IN Step(IF cur = "" THEN <<>> ELSE <<cur>>, Char(s, i), LexemeAt(s, i))

Split(s) ==
    LET NonEmpty(p) == IF p = <<>> THEN <<"">> ELSE p
    IN NonEmpty(SplitFrom(s, 1, ""))

\* x.replace(/\{\{exp(\d+)\}\}/g, ...): the masked inner expressions of a part,
\* restored (an index is one digit within the bounds of the model).
RECURSIVE RestoreInner(_, _, _)
RestoreInner(x, inner, k) ==
    IF k > Len(inner) THEN x
    ELSE RestoreInner(ReplaceFirst(x, "{{exp" \o ToString(k - 1) \o "}}", inner[k]),
                      inner, k + 1)

\* A part that is exactly "{{str#index#}}" is the string it stands for.
RestoreString(x, lits) ==
    LET Hit(hits) == IF hits = {} THEN x ELSE lits[CHOOSE k \in hits : TRUE]
    IN Hit({ k \in 1..Len(lits) : x = "{{str" \o ToString(k - 1) \o "}}" })

\* The parts of an expression: strings and inner expressions masked, the
\* expression split at the operators, the masks restored.
Parts(expression) ==
    LET Restored(split, inner, lits) ==
            [i \in 1..Len(split) |->
                RestoreString(RestoreInner(split[i], inner, 1), lits)]
        MaskedInner(e1, inner, lits) ==
            Restored(Split(MaskInner(e1, inner, 1)), inner, lits)
        MaskedStrings(e1, lits) == MaskedInner(e1, getInnerExpressions(e1), lits)
        Literals(lits) == MaskedStrings(MaskStrings(expression, lits, 1), lits)
    IN Literals(StringLiterals(expression, 1))

\* recurse(): collects parts up to the closing parenthesis, a parenthesised
\* part through a nested recurse(), and groups what it collected.
\* Yields [tree, pos].
RECURSIVE recurse(_, _, _)
recurse(parts, pos, output) ==
    IF pos >= Len(parts) \/ parts[pos + 1] = ")"
    THEN [tree |-> Group(output), pos |-> IF pos >= Len(parts) THEN pos ELSE pos + 1]
    ELSE IF parts[pos + 1] = "(" THEN
         LET Nested(r) == recurse(parts, r.pos, Append(output, unwrapSingleArray(r.tree)))
         IN Nested(recurse(parts, pos + 1, <<>>))
    ELSE recurse(parts, pos + 1, Append(output, Str(parts[pos + 1])))

\* ExpressionTree.#buildTree
buildTree(expression) == recurse(Parts(expression), 0, <<>>).tree


-----------------------------------------------------------------------------
(* The host language's operators on the values of the model *)

\* The outcome of an operation the value domain cannot hold: a power with a
\* fractional exponent, an unsigned shift beyond 2^31 - 1, arithmetic on
\* infinities beyond sums and products.  No state of the specifications holds it.
Unmodelled == Val("unmodelled", 0, 1, "", 0, <<>>, <<>>)

DigitValue(c) ==
    CASE c = "0" -> 0 [] c = "1" -> 1 [] c = "2" -> 2 [] c = "3" -> 3 [] c = "4" -> 4
      [] c = "5" -> 5 [] c = "6" -> 6 [] c = "7" -> 7 [] c = "8" -> 8 [] c = "9" -> 9

\* parseInt of a string of digits.
RECURSIVE parseDigits(_)
parseDigits(x) ==
    IF Len(x) = 0 THEN 0
    ELSE 10 * parseDigits(Slice(x, 1, Len(x) - 1)) + DigitValue(Char(x, Len(x)))

RECURSIVE Pow10(_)
Pow10(k) == IF k = 0 THEN 1 ELSE 10 * Pow10(k - 1)

\* A numeric text without its sign.
Unsigned(x) == IF Len(x) >= 1 /\ Char(x, 1) = "-" THEN Slice(x, 2, Len(x)) ELSE x

\* /^-?\d+$/
IsIntText(x) == IsDigits(Unsigned(x))

\* /^-?\d+\.\d+$/
IsFloatText(x) ==
    LET Dotted(u, dot) ==
            /\ dot > 1
            /\ IsDigits(Slice(u, 1, dot - 1))
            /\ IsDigits(Slice(u, dot + 1, Len(u)))
    IN Dotted(Unsigned(x), IndexFrom(Unsigned(x), ".", 1))

parseInt(x) == Num((IF Char(x, 1) = "-" THEN -1 ELSE 1) * parseDigits(Unsigned(x)))

parseFloat(x) ==
    LET Dotted(sign, u, dot) ==
            Frac(sign * (parseDigits(Slice(u, 1, dot - 1)) * Pow10(Len(u) - dot)
                         + parseDigits(Slice(u, dot + 1, Len(u)))),
                 Pow10(Len(u) - dot))
    IN Dotted(IF Char(x, 1) = "-" THEN -1 ELSE 1, Unsigned(x),
              IndexFrom(Unsigned(x), ".", 1))

\* The decimal digits of p/q (0 <= p < q) after the point, at most k of them.
RECURSIVE FractionDigits(_, _, _)
FractionDigits(p, q, k) ==
    IF p = 0 \/ k = 0 THEN ""
    ELSE ToString((10 * p) \div q) \o FractionDigits((10 * p) % q, q, k - 1)

RECURSIVE JoinStrings(_, _)
JoinStrings(seq, sep) ==
    IF Len(seq) = 0 THEN ""
    ELSE IF Len(seq) = 1 THEN seq[1]
    ELSE seq[1] \o sep \o JoinStrings(Tail(seq), sep)

\* String(x)
RECURSIVE ToStr(_)
ToStr(x) ==
    CASE x.t = "undef" -> "undefined"
      [] x.t = "null" -> "null"
      [] x.t = "bool" -> IF x.n = 1 THEN "true" ELSE "false"
      [] x.t = "nan" -> "NaN"
      [] x.t = "inf" -> IF x.n > 0 THEN "Infinity" ELSE "-Infinity"
      [] x.t = "str" -> x.s
      [] x.t = "num" ->
            IF x.d = 1 THEN ToString(x.n)
            ELSE (IF x.n < 0 THEN "-" ELSE "") \o ToString(Abs(x.n) \div x.d) \o "."
                 \o FractionDigits(Abs(x.n) % x.d, x.d, 16)
      [] x.t = "arr" ->
            JoinStrings([i \in 1..Len(x.items) |->
                            IF x.items[i].t \in {"undef", "null"} THEN ""
                            ELSE ToStr(x.items[i])], ",")
      [] x.t = "obj" -> "[object Object]"
      [] OTHER -> x.s

\* Number(text)
StringToNumber(x) ==
    IF x = "" THEN Num(0)
    ELSE IF IsIntText(x) THEN parseInt(x)
    ELSE IF IsFloatText(x) THEN parseFloat(x)
    ELSE IF x = "Infinity" THEN Inf(1)
    ELSE IF x = "-Infinity" THEN Inf(-1)
    ELSE NaN

\* ToPrimitive: an array or object becomes its string.
ToPrimitive(x) == IF x.t \in {"arr", "obj"} THEN Str(ToStr(x)) ELSE x

\* ToNumber: of a string, and of the string an array or object becomes.
ToNumber(x) ==
    CASE x.t = "undef" -> NaN
      [] x.t = "null" -> Num(0)
      [] x.t = "bool" -> Num(x.n)
      [] x.t \in {"str", "arr", "obj"} -> StringToNumber(ToStr(x))
      [] OTHER -> x

\* ToBoolean
Truthy(x) ==
    CASE x.t \in {"undef", "null", "nan"} -> FALSE
      [] x.t = "bool" -> x.n = 1
      [] x.t = "num" -> x.n # 0
      [] x.t = "str" -> x.s # ""
      [] OTHER -> TRUE

Sign(i) == IF i > 0 THEN 1 ELSE IF i < 0 THEN -1 ELSE 0

\* x + y, x - y, x * y, x / y on numbers (num, nan, inf).
NumAdd(x, y) ==
    CASE x.t = "unmodelled" \/ y.t = "unmodelled" -> Unmodelled
      [] x.t = "nan" \/ y.t = "nan" -> NaN
      [] x.t = "inf" /\ y.t = "inf" -> IF x.n = y.n THEN x ELSE NaN
      [] x.t = "inf" -> x
      [] y.t = "inf" -> y
      [] OTHER -> Frac(x.n * y.d + y.n * x.d, x.d * y.d)

NumNeg(x) ==
    CASE x.t = "num" -> Frac(0 - x.n, x.d)
      [] x.t = "inf" -> Inf(0 - x.n)
      [] OTHER -> x

NumMul(x, y) ==
    CASE x.t = "unmodelled" \/ y.t = "unmodelled" -> Unmodelled
      [] x.t = "nan" \/ y.t = "nan" -> NaN
      [] x.t = "inf" \/ y.t = "inf" ->
            IF Sign(x.n) * Sign(y.n) = 0 THEN NaN ELSE Inf(Sign(x.n) * Sign(y.n))
      [] OTHER -> Frac(x.n * y.n, x.d * y.d)

NumDiv(x, y) ==
    CASE x.t = "unmodelled" \/ y.t = "unmodelled" -> Unmodelled
      [] x.t = "nan" \/ y.t = "nan" -> NaN
      [] x.t = "inf" /\ y.t = "inf" -> NaN
      [] x.t = "inf" -> Inf(x.n * (IF y.n < 0 THEN -1 ELSE 1))
      [] y.t = "inf" -> Num(0)
      [] y.n = 0 -> IF x.n = 0 THEN NaN ELSE Inf(Sign(x.n))
      [] OTHER -> Frac(x.n * y.d, x.d * y.n)

\* The integer part of a finite number, towards zero.
Trunc(x) ==
    IF x.n >= 0 \/ x.n % x.d = 0 THEN x.n \div x.d ELSE (x.n \div x.d) + 1

\* x % y: the remainder has the sign of the dividend.
NumRem(x, y) ==
    CASE x.t = "unmodelled" \/ y.t = "unmodelled" -> Unmodelled
      [] x.t = "nan" \/ y.t = "nan" \/ x.t = "inf" -> NaN
      [] y.t = "inf" -> x
      [] y.n = 0 -> NaN
      [] OTHER -> NumAdd(x, NumNeg(NumMul(y, Num(Trunc(NumDiv(x, y))))))

RECURSIVE IntPow(_, _)
IntPow(b, e) == IF e = 0 THEN 1 ELSE b * IntPow(b, e - 1)

\* x ** y for a whole exponent.
NumPow(x, y) ==
    CASE x.t = "unmodelled" \/ y.t = "unmodelled" -> Unmodelled
      [] y.t = "nan" -> NaN
      [] y.t = "num" /\ y.n = 0 -> Num(1)
      [] x.t = "nan" -> NaN
      [] x.t = "num" /\ y.t = "num" /\ y.d = 1 /\ y.n > 0 ->
            Frac(IntPow(x.n, y.n), IntPow(x.d, y.n))
      [] x.t = "num" /\ y.t = "num" /\ y.d = 1 /\ y.n < 0 ->
            IF x.n = 0 THEN Inf(1)
            ELSE Frac(IntPow(x.d, 0 - y.n), IntPow(x.n, 0 - y.n))
      [] OTHER -> Unmodelled

Two30 == 1073741824

\* ToInt32 of a number the model holds: NaN and the infinities are 0.
ToInt32(x) == IF x.t = "num" THEN Trunc(x) ELSE 0

\* 2 * i in 32-bit two's complement.
Double32(i) ==
    IF i >= Two30 THEN ((i - Two30) * 2 - Two30) - Two30
    ELSE IF i < 0 - Two30 THEN ((i + Two30) * 2 + Two30) + Two30
    ELSE 2 * i

RECURSIVE Shl32(_, _)
Shl32(i, c) == IF c = 0 THEN i ELSE Shl32(Double32(i), c - 1)

RECURSIVE Sar32(_, _)
Sar32(i, c) == IF c = 0 THEN i ELSE Sar32(i \div 2, c - 1)

\* i >>> c for c > 0, or for i >= 0.
Shr32(i, c) ==
    IF i >= 0 THEN Sar32(i, c) ELSE Sar32(((i \div 2) + Two30) + Two30, c - 1)

\* The bitwise operators on 32-bit two's complement integers, bit by bit.
BitOp(op, a, b) ==
    CASE op = "&" -> IF a = 1 /\ b = 1 THEN 1 ELSE 0
      [] op = "|" -> IF a = 1 \/ b = 1 THEN 1 ELSE 0
      [] op = "^" -> IF a # b THEN 1 ELSE 0

RECURSIVE Bitwise(_, _, _)
Bitwise(op, i, j) ==
    IF i \in {0, -1} /\ j \in {0, -1}
    THEN 0 - BitOp(op, 0 - i, 0 - j)
    ELSE 2 * Bitwise(op, i \div 2, j \div 2) + BitOp(op, i % 2, j % 2)

\* The code points of the characters the model's strings are made of, in order.
CodeOrder == " !#$%&+,-./0123456789:;<=>?@ABCDEFGHIJKLMNOPQRSTUVWXYZ[]^_abcdefghijklmnopqrstuvwxyz{|}~"

CharCode(c) == IndexFrom(CodeOrder, c, 1)

\* a < b on strings: by code units.
RECURSIVE StrLess(_, _)
StrLess(a, b) ==
    IF Len(b) = 0 THEN FALSE
    ELSE IF Len(a) = 0 THEN TRUE
    ELSE IF Char(a, 1) = Char(b, 1) THEN StrLess(Slice(a, 2, Len(a)), Slice(b, 2, Len(b)))
    ELSE CharCode(Char(a, 1)) < CharCode(Char(b, 1))

\* x < y on numbers; NaN compares false.
NumLess(x, y) ==
    CASE x.t = "nan" \/ y.t = "nan" -> FALSE
      [] x.t = "inf" /\ y.t = "inf" -> x.n < y.n
      [] x.t = "inf" -> x.n < 0
      [] y.t = "inf" -> y.n > 0
      [] OTHER -> x.n * y.d < y.n * x.d

\* The operators below that convert their operands take them converted: px
\* and py are ToPrimitive of the operands, nx and ny their ToNumber.

\* x < y
Less(px, py, nx, ny) ==
    IF px.t = "str" /\ py.t = "str" THEN StrLess(px.s, py.s) ELSE NumLess(nx, ny)

\* x <= y: neither is NaN and y < x is false.
LessEq(px, py, nx, ny) ==
    IF px.t = "str" /\ py.t = "str" THEN ~StrLess(py.s, px.s)
    ELSE nx.t # "nan" /\ ny.t # "nan" /\ ~NumLess(ny, nx)

\* x === y: NaN differs from itself; arrays and objects are equal when they are
\* the same instance, and an instance allocated by an evaluation (id 0) is a
\* different instance each time.
StrictEquals(x, y) ==
    CASE x.t # y.t -> FALSE
      [] x.t = "nan" -> FALSE
      [] x.t \in {"arr", "obj"} -> x.id = y.id /\ x.id # 0
      [] OTHER -> x = y

\* x == y
LooseEquals(x, y, px, py, nx, ny) ==
    CASE x.t \in {"undef", "null"} \/ y.t \in {"undef", "null"} ->
            x.t \in {"undef", "null"} /\ y.t \in {"undef", "null"}
      [] x.t \in {"arr", "obj"} /\ y.t \in {"arr", "obj"} -> StrictEquals(x, y)
      [] px.t = "str" /\ py.t = "str" -> px.s = py.s
      [] OTHER -> StrictEquals(nx, ny)

\* x + y: a concatenation when either operand is (or becomes) a string.
Plus(px, py, nx, ny) ==
    IF px.t = "str" \/ py.t = "str" THEN Str(ToStr(px) \o ToStr(py))
    ELSE NumAdd(nx, ny)

ShiftCount(ny) == ToInt32(ny) % 32

\* The operators of handleInfixOperations.
InfixOn(op, x, y, px, py, nx, ny) ==
    CASE x.t = "unmodelled" \/ y.t = "unmodelled" -> Unmodelled
      [] op = "**" -> NumPow(nx, ny)
      [] op = "*" -> NumMul(nx, ny)
      [] op = "/" -> NumDiv(nx, ny)
      [] op = "%" -> NumRem(nx, ny)
      [] op = "+" -> Plus(px, py, nx, ny)
      [] op = "-" -> NumAdd(nx, NumNeg(ny))
      [] op = "<<" -> Num(Shl32(ToInt32(nx), ShiftCount(ny)))
      [] op = ">>" -> Num(Sar32(ToInt32(nx), ShiftCount(ny)))
      [] op = ">>>" -> IF ToInt32(nx) < 0 /\ ShiftCount(ny) = 0 THEN Unmodelled
                       ELSE Num(Shr32(ToInt32(nx), ShiftCount(ny)))
      [] op \in {"===", "!=="} -> Bool(StrictEquals(x, y) <=> op = "===")
      [] op \in {"==", "!="} -> Bool(LooseEquals(x, y, px, py, nx, ny) <=> op = "==")
      [] op \in {">=", "<="} ->
            Bool(IF op = "<=" THEN LessEq(px, py, nx, ny) ELSE LessEq(py, px, ny, nx))
      [] op \in {">", "<"} ->
            Bool(IF op = "<" THEN Less(px, py, nx, ny) ELSE Less(py, px, ny, nx))
      [] op \in {"&", "^", "|"} -> Num(Bitwise(op, ToInt32(nx), ToInt32(ny)))
      [] op = "&&" -> IF Truthy(x) THEN y ELSE x
      [] op = "||" -> IF Truthy(x) THEN x ELSE y
      [] op = "??" -> IF x.t \in {"undef", "null"} THEN y ELSE x

Infix(op, x, y) ==
    InfixOn(op, x, y, ToPrimitive(x), ToPrimitive(y), ToNumber(x), ToNumber(y))

InfixOperators == << "**", "*", "/", "%", "+", "-", "<<", ">>", ">>>", "===", "==",
                     "!==", "!=", ">=", ">", "<=", "<", "&", "^", "|", "&&", "||", "??" >>

\* The operators of handlePrefixOperations.
PrefixOn(op, x, px, nx) ==
    CASE x.t = "unmodelled" -> Unmodelled
      [] op \in {"!!", "!"} -> Bool(Truthy(x) <=> op = "!!")
      [] op = "~" -> Num(0 - ToInt32(nx) - 1)
      [] op = "-" -> NumAdd(Num(0), NumNeg(nx))
      [] op = "+" -> Plus(Num(0), px, Num(0), nx)

Prefix(op, x) == PrefixOn(op, x, ToPrimitive(x), ToNumber(x))

PrefixOperators == << "!!", "!", "~", "-", "+" >>

-----------------------------------------------------------------------------
(* The path resolver.  A binder b is [state, functions, indexMap]: #state,   *)
(* the names of #functions and #indexMap (a function from keys to indexes).  *)
(* An evaluation yields [v, log]: its value (or the error it throws) and the *)
(* leaves it resolved and the custom functions it invoked, in order.         *)

Resolved(leaf) == [kind |-> "resolve", name |-> leaf, arg |-> Undef]
Invoked(fn, arg) == [kind |-> "call", name |-> fn, arg |-> arg]

IsThrown(x) == x.t = "error"

\* .replace(/\{([a-zA-Z0-9_]+)\}/g, (_, key) => this.#indexMap.get(key))
RECURSIVE ReplaceIndexKeys(_, _, _)
ReplaceIndexKeys(imap, s, i) ==
    IF i > Len(s) THEN ""
    ELSE LET close == IndexFrom(s, "}", i + 1)
             key == Slice(s, i + 1, close - 1)
         IN IF /\ Char(s, i) = "{"
               /\ close > i + 1
               /\ AllChars(key, Letters \cup Digits \cup {"_"})
            THEN (IF key \in DOMAIN imap THEN ToString(imap[key]) ELSE "undefined")
                 \o ReplaceIndexKeys(imap, s, close + 1)
            ELSE Char(s, i) \o ReplaceIndexKeys(imap, s, i + 1)

\* .replace(/\[(\d+)\]/g, ".$1.")
RECURSIVE ReplaceIndexes(_, _)
ReplaceIndexes(s, i) ==
    IF i > Len(s) THEN ""
    ELSE LET close == IndexFrom(s, "]", i + 1)
             digits == Slice(s, i + 1, close - 1)
         IN IF Char(s, i) = "[" /\ close > i + 1 /\ IsDigits(digits)
            THEN "." \o digits \o "." \o ReplaceIndexes(s, close + 1)
            ELSE Char(s, i) \o ReplaceIndexes(s, i + 1)

\* .replace(/\.+/g, ".")
RECURSIVE CollapseDots(_, _)
CollapseDots(s, i) ==
    IF i > Len(s) THEN ""
    ELSE IF Char(s, i) = "." /\ i < Len(s) /\ Char(s, i + 1) = "."
         THEN CollapseDots(s, i + 1)
         ELSE Char(s, i) \o CollapseDots(s, i + 1)

\* .replace(/^\./g, "").replace(/\.$/g, "")
TrimDots(s) ==
    LET Last(a) == IF Len(a) >= 1 /\ Char(a, Len(a)) = "." THEN Slice(a, 1, Len(a) - 1) ELSE a
    IN Last(IF Len(s) >= 1 /\ Char(s, 1) = "." THEN Slice(s, 2, Len(s)) ELSE s)

\* .split(".")
RECURSIVE SplitDots(_, _, _)
SplitDots(s, i, cur) ==
    IF i > Len(s) THEN <<cur>>
    ELSE IF Char(s, i) = "." THEN <<cur>> \o SplitDots(s, i + 1, "")
    ELSE SplitDots(s, i + 1, cur \o Char(s, i))

ForbiddenKeys == {"__proto__", "constructor", "prototype"}

ForbiddenPath == Thrown("Path includes forbidden keywords")
TypeError == Thrown("TypeError")

\* JSBinder.#createPath: "data[0].title" >> ["data", "0", "title"]; the error
\* when a segment is forbidden.
PathSegments(imap, expression) ==
    SplitDots(TrimDots(CollapseDots(ReplaceIndexes(
        ReplaceIndexKeys(imap, expression, 1), 1), 1)), 1, "")

createPathNeverThrows(path) == FALSE

createPathThrows(path) == \E i \in DOMAIN path : path[i] \in ForbiddenKeys

\* x[key]: a member of an object, an element or the length of an array or
\* string; undefined when there is none; a TypeError on null.
Member(x, key) ==
    CASE x.t \in {"null", "undef"} -> TypeError
      [] x.t = "obj" ->
            LET hits == { i \in DOMAIN x.keys : x.keys[i] = key }
            IN IF hits = {} THEN Undef ELSE x.items[CHOOSE i \in hits : TRUE]
      [] x.t = "arr" ->
            IF key = "length" THEN Num(Len(x.items))
            ELSE IF IsDigits(key) THEN At(x.items, parseDigits(key))
            ELSE Undef
      [] x.t = "str" ->
            IF key = "length" THEN Num(Len(x.s))
            ELSE IF IsDigits(key) /\ parseDigits(key) < Len(x.s)
                 THEN Str(Char(x.s, parseDigits(key) + 1))
            ELSE Undef
      [] OTHER -> Undef

\* path.reduce((x, key) => (x === undefined || x[key] === undefined) ? undefined : x[key], state)
RECURSIVE Walk(_, _, _)
Walk(x, path, i) ==
    IF i > Len(path) THEN x
    ELSE IF x.t = "undef" THEN Walk(Undef, path, i + 1)
    ELSE LET Next(member) ==
                 IF IsThrown(member) THEN member ELSE Walk(member, path, i + 1)
         IN Next(Member(x, path[i]))

\* String.prototype.trim
RECURSIVE trim(_)
trim(x) ==
    IF Len(x) >= 1 /\ Char(x, 1) \in Whitespace THEN trim(Slice(x, 2, Len(x)))
    ELSE IF Len(x) >= 1 /\ Char(x, Len(x)) \in Whitespace THEN trim(Slice(x, 1, Len(x) - 1))
    ELSE x

\* /^(['"]).*\1$/
IsQuoted(x) ==
    Len(x) >= 2 /\ Char(x, 1) \in {"'", "\""} /\ Char(x, Len(x)) = Char(x, 1)

\* The registered custom functions of the model, each of one argument.
FunctionNames == {"#inc", "#neg"}

Apply(fn, x) ==
    CASE fn = "#inc" -> Plus(ToPrimitive(x), Num(1), ToNumber(x), Num(1))
      [] fn = "#neg" -> Bool(~Truthy(x))

RECURSIVE resolveValue(_, _)
RECURSIVE resolveLiterals(_, _)
RECURSIVE evaluateTree(_, _)
RECURSIVE evaluate(_, _)
RECURSIVE ResolveInner(_, _, _, _, _)

\* The inner expressions of a path, each evaluated and written back as a
\* segment: exp.replace(`[${x}]`, `.${evaluated}.`).  Yields [v, log] with v
\* the rewritten path as a string, or the error an inner evaluation threw.
ResolveInner(b, expression, inner, k, log) ==
    IF k > Len(inner) THEN [v |-> Str(expression), log |-> log]
    ELSE LET Written(r) ==
                 IF IsThrown(r.v) THEN [v |-> r.v, log |-> log \o r.log]
                 ELSE ResolveInner(b,
                         ReplaceFirst(expression, "[" \o inner[k] \o "]",
                                      "." \o ToStr(r.v) \o "."),
                         inner, k + 1, log \o r.log)
         IN Written(evaluate(b, inner[k]))

\* JSBinder.#resolveValue: the value of a literal, or of a path in the state.
\* The value at a path of the state; r is the outcome of writing the inner
\* expressions of the leaf back into it, path the segments of what it wrote.
resolvePath(b, r, path) ==
    IF IsThrown(r.v) THEN r
    ELSE IF createPathThrows(path) THEN [v |-> ForbiddenPath, log |-> r.log]
    ELSE [v |-> Walk(b.state, path, 1), log |-> r.log]

\* x is the trimmed text of the leaf.
resolveValue(b, leaf) ==
    LET Path(r) == resolvePath(b, r, PathSegments(b.indexMap, r.v.s))
        Literal(x, here, r) ==
            IF IsIntText(x) THEN [v |-> parseInt(x), log |-> here]
            ELSE IF IsFloatText(x) THEN [v |-> parseFloat(x), log |-> here]
            ELSE IF IsQuoted(x) THEN [v |-> Str(Slice(x, 2, Len(x) - 1)), log |-> here]
            ELSE IF x = "true" THEN [v |-> Bool(TRUE), log |-> here]
            ELSE IF x = "false" THEN [v |-> Bool(FALSE), log |-> here]
            ELSE IF x = "null" THEN [v |-> Null, log |-> here]
            ELSE IF x = "undefined" THEN [v |-> Undef, log |-> here]
            ELSE IF x = "Infinity" THEN [v |-> Inf(1), log |-> here]
            ELSE IF x = "NaN" THEN [v |-> NaN, log |-> here]
            ELSE r
    IN IF ~IsString(leaf) THEN [v |-> leaf, log |-> <<>>]
       ELSE Literal(trim(leaf.s), <<Resolved(leaf.s)>>,
                    Path(ResolveInner(b, trim(leaf.s), getInnerExpressions(trim(leaf.s)),
                                      1, <<Resolved(leaf.s)>>)))

\* One map of resolveLiterals over the elements from k on: acc is the array
\* rebuilt so far, stop the error that ended the evaluation (or Undef).
RECURSIVE ResolveNested(_, _, _, _)
ResolveNested(b, input, k, acc) ==
    IF k > Len(input) THEN acc
    ELSE IF IsThrown(acc.v) THEN acc
    ELSE IF IsArray(input[k]) THEN
         LET Added(r) ==
                 ResolveNested(b, input, k + 1,
                    [v |-> IF IsThrown(r.v) THEN r.v ELSE Arr(0, Append(acc.v.items, r.v)),
                     log |-> acc.log \o r.log])
         IN Added(resolveLiterals(b, input[k].items))
    ELSE ResolveNested(b, input, k + 1,
                [v |-> Arr(0, Append(acc.v.items, input[k])), log |-> acc.log])

\* The second map of resolveLiterals, over the array that the first left in
\* nested (or the error that ended it): the leaves, resolved.
RECURSIVE ResolveLeaves(_, _, _, _)
ResolveLeaves(b, nested, k, acc) ==
    IF IsThrown(nested.v) THEN nested
    ELSE IF IsThrown(acc.v) \/ k > Len(nested.v.items)
         THEN [v |-> acc.v, log |-> nested.log \o acc.log]
    ELSE LET Added(x, r) ==
                 ResolveLeaves(b, nested, k + 1,
                    IF ~IsArray(x) /\ ~isFunction(x) /\ ~isOperator(x)
                    THEN [v |-> IF IsThrown(r.v) THEN r.v
                                ELSE Arr(0, Append(acc.v.items, r.v)),
                          log |-> acc.log \o r.log]
                    ELSE [v |-> Arr(0, Append(acc.v.items, x)), log |-> acc.log])
         IN Added(nested.v.items[k], resolveValue(b, nested.v.items[k]))

\* resolveLiterals: the nested arrays first, then the leaves of this array.
\* Yields [v, log], v the resolved array.
resolveLiterals(b, input) ==
    ResolveLeaves(b, ResolveNested(b, input, 1, [v |-> Arr(0, <<>>), log |-> <<>>]),
                  1, [v |-> Arr(0, <<>>), log |-> <<>>])

\* input.map((x) => Array.isArray(x) ? evaluateTree(x) : x)
RECURSIVE EvaluateNested(_, _, _, _)
EvaluateNested(b, input, k, acc) ==
    IF k > Len(input) THEN acc
    ELSE IF IsArray(input[k]) THEN
         LET Added(r) ==
                 EvaluateNested(b, input, k + 1,
                    [v |-> Append(acc.v, r.v), log |-> acc.log \o r.log])
         IN Added(evaluateTree(b, input[k].items))
    ELSE EvaluateNested(b, input, k + 1, [v |-> Append(acc.v, input[k]), log |-> acc.log])

list(x) == IF IsArray(x) THEN x.items ELSE <<x>>

\* A wrong handleTernary: the branches taken the other way round.
handleTernarySwapped(b, data) ==
    IF Len(data.v) = 5 /\ data.v[2] = Str("?") /\ data.v[4] = Str(":")
    THEN LET Taken(c) ==
                 [v |-> IF Truthy(c.v) THEN list(data.v[5]) ELSE list(data.v[3]),
                  log |-> data.log \o c.log]
         IN Taken(evaluateTree(b, list(data.v[1])))
    ELSE data

\* handleTernary: [condition, "?", a, ":", b] >> [a] or [b]
handleTernary(b, data) ==
    IF Len(data.v) = 5 /\ data.v[2] = Str("?") /\ data.v[4] = Str(":")
    THEN LET Taken(c) ==
                 [v |-> IF Truthy(c.v) THEN list(data.v[3]) ELSE list(data.v[5]),
                  log |-> data.log \o c.log]
         IN Taken(evaluateTree(b, list(data.v[1])))
    ELSE data

\* handleFunctions: ["#round", 5.5] >> [6], for the functions registered now.
handleFunctions(b, data) ==
    IF Len(data.v) = 2 /\ IsString(data.v[1]) /\ data.v[1].s \in b.functions
    THEN [v |-> <<Apply(data.v[1].s, data.v[2])>>,
          log |-> Append(data.log, Invoked(data.v[1].s, data.v[2]))]
    ELSE data

\* handlePrefixOperations: ["!", true] >> [false]
handlePrefixOperations(data) ==
    IF /\ Len(data.v) = 2
       /\ \E i \in DOMAIN PrefixOperators : data.v[1] = Str(PrefixOperators[i])
    THEN [v |-> <<Prefix(data.v[1].s, data.v[2])>>, log |-> data.log]
    ELSE data

\* handleInfixOperations: [1, "+", 2] >> [3]
handleInfixOperations(data) ==
    IF /\ Len(data.v) = 3
       /\ \E i \in DOMAIN InfixOperators : data.v[2] = Str(InfixOperators[i])
    THEN [v |-> <<Infix(data.v[2].s, data.v[1], data.v[3])>>, log |-> data.log]
    ELSE data

\* evaluateTree: the nested arrays first, then the handlers in the order of
\* the pipe, then #unwrapSingleArray.
evaluateTree(b, input) ==
    LET Unwrapped(piped) == [v |-> unwrapSingleArray(Arr(0, piped.v)), log |-> piped.log]
    IN Unwrapped(handleInfixOperations(handlePrefixOperations(
            handleFunctions(b, handleTernary(b,
                EvaluateNested(b, input, 1, [v |-> <<>>, log |-> <<>>]))))))

\* JSBinder.#pipe: the second stage on the outcome r of the first, unless the
\* first threw.
pipe(b, r) ==
    LET Piped(e) == [v |-> e.v, log |-> r.log \o e.log]
    IN IF IsThrown(r.v) THEN r ELSE Piped(evaluateTree(b, r.v.items))

\* ExpressionTree.evaluate: pipe(resolveLiterals, evaluateTree)(tree)
evaluateExpressionTree(b, t) == pipe(b, resolveLiterals(b, t.items))

\* JSBinder.#evaluate: a new tree of the expression, evaluated.
evaluate(b, expression) == evaluateExpressionTree(b, buildTree(expression))

-----------------------------------------------------------------------------
(* The repeaters: #eachDirective.refresh and #forDirective.refresh           *)

\* The value of an attribute that the element does not carry.
null == "<null>"

WordChars == Letters \cup Digits \cup {"_"}

\* s.replace(new RegExp(`@${alias}\\b`, "g"), by)
RECURSIVE ReplaceAlias(_, _, _, _)
ReplaceAlias(s, alias, by, i) ==
    IF i > Len(s) THEN ""
    ELSE LET j == i + Len(alias)
         IN IF /\ Slice(s, i, j) = "@" \o alias
               /\ Char(s, j) \in WordChars
               /\ (j = Len(s) \/ Char(s, j + 1) \notin WordChars)
            THEN by \o ReplaceAlias(s, alias, by, j + 1)
            ELSE Char(s, i) \o ReplaceAlias(s, alias, by, i + 1)

\* `${binding.list}[${index}]`
ItemPath(r, index) == r.list \o "[" \o ToString(index) \o "]"

\* binder.#evaluate(expression.replace(RGX_VARIABLE_ALIAS, by))
evaluateFor(b, r, expression, by) == evaluate(b, ReplaceAlias(expression, r.alias, by, 1)).v

\* JSBinder.#isNumeric
isNumeric(x) ==
    \/ x.t \in {"num", "nan", "inf"}
    \/ x.t = "str" /\ trim(x.s) # "" /\ StringToNumber(trim(x.s)).t # "nan"

\* String.prototype.toLowerCase on the letters of the model.
LowerCase(c) ==
    LET Lower(i) == IF i = 0 THEN c ELSE Char("abcdefghijklmnopqrstuvwxyz", i)
    IN Lower(IndexFrom("ABCDEFGHIJKLMNOPQRSTUVWXYZ", c, 1))

RECURSIVE Lowered(_)
Lowered(s) == IF s = "" THEN "" ELSE LowerCase(Char(s, 1)) \o Lowered(Slice(s, 2, Len(s)))

\* A comparator with the numeric values first.
alphaNumericSortNumbersFirst(a, b) ==
    LET Compare(aNum, bNum, x, y) ==
            CASE aNum /\ ~bNum -> -1
              [] ~aNum /\ bNum -> 1
              [] aNum /\ bNum -> IF NumLess(x, y) THEN -1 ELSE IF NumLess(y, x) THEN 1 ELSE 0
              [] OTHER -> 0
    IN Compare(isNumeric(a), isNumeric(b), ToNumber(a), ToNumber(b))

\* JSBinder.#alphaNumericSort, as the sign of what it returns: numeric values
\* after the others and by their number, the other values by localeCompare
\* with sensitivity 'base' (of texts of letters: without regard to case).
alphaNumericSort(a, b) ==
    LET Compare(aNum, bNum, x, y, s, t) ==
            CASE aNum /\ ~bNum -> 1
              [] ~aNum /\ bNum -> -1
              [] aNum /\ bNum ->
                    IF x.t = "nan" \/ y.t = "nan" THEN 0
                    ELSE IF NumLess(x, y) THEN -1 ELSE IF NumLess(y, x) THEN 1 ELSE 0
              [] OTHER -> IF StrLess(s, t) THEN -1 ELSE IF StrLess(t, s) THEN 1 ELSE 0
    IN Compare(isNumeric(a), isNumeric(b), ToNumber(a), ToNumber(b),
               Lowered(ToStr(a)), Lowered(ToStr(b)))

\* Array.prototype.sort, which is stable: each element goes behind the
\* elements that the comparator does not put after it.
RECURSIVE InsertSorted(_, _, _)
InsertSorted(sorted, x, i) ==
    IF i > Len(sorted) \/ alphaNumericSort(sorted[i].value, x.value) > 0
    THEN SubSeq(sorted, 1, i - 1) \o <<x>> \o SubSeq(sorted, i, Len(sorted))
    ELSE InsertSorted(sorted, x, i + 1)

RECURSIVE Sorted(_, _, _)
Sorted(pairs, k, acc) ==
    IF k > Len(pairs) THEN acc
    ELSE Sorted(pairs, k + 1, InsertSorted(acc, pairs[k], 1))

\* The key equality of a Map (SameValueZero).
SameValueZero(x, y) == (x.t = "nan" /\ y.t = "nan") \/ StrictEquals(x, y)

\* new Map(entries): a later entry of a key replaces the value of that key, at
\* the position of the first.
RECURSIVE NewMap(_, _, _)
NewMap(entries, k, map) ==
    IF k > Len(entries) THEN map
    ELSE LET hit == { i \in DOMAIN map : SameValueZero(map[i].key, entries[k].key) }
         IN NewMap(entries, k + 1,
                IF hit = {} THEN Append(map, entries[k])
                ELSE [map EXCEPT ![CHOOSE i \in hit : TRUE] = entries[k]])

\* A wrong toReversed: the array as it is.
toReversedSame(a) == a

\* Array.prototype.toReversed
toReversed(a) == [i \in 1..Len(a) |-> a[Len(a) + 1 - i]]

\* The relative index that Array.prototype.slice makes of an argument.
RelativeIndex(x, len) ==
    LET Clamp(k) == IF k < 0 THEN (IF len + k < 0 THEN 0 ELSE len + k)
                    ELSE IF k > len THEN len ELSE k
        Of(v) == Clamp(IF v.t = "num" THEN Trunc(v) ELSE IF v.t = "inf" THEN v.n * len ELSE 0)
    IN Of(ToNumber(x))

\* Array.prototype.slice(start, end), end undefined for the end of the array.
slice(a, start, end) ==
    SubSeq(a, RelativeIndex(start, Len(a)) + 1,
           IF end.t = "undef" THEN Len(a) ELSE RelativeIndex(end, Len(a)))


\* array.includes(x) and array.indexOf(x), the latter on 0-based positions.
includes(a, x) == \E i \in DOMAIN a : SameValueZero(a[i], x)

indexOf(a, x) ==
    LET hits == { i \in DOMAIN a : StrictEquals(a[i], x) }
    IN IF hits = {} THEN -1 ELSE (CHOOSE i \in hits : \A j \in hits : i <= j) - 1

\* A stage of the pipeline yields the indexes it lets through, or that one of
\* its evaluations threw, which ends refresh before it has made a key.
Indexes(indexes) == [indexes |-> indexes, thrown |-> FALSE]

Threw == [indexes |-> <<>>, thrown |-> TRUE]

\* indexes.map((index) => evaluate(expression.replace(alias, `${list}[${index}]`)))
ValuesAt(b, r, expression, indexes) ==
    [k \in DOMAIN indexes |-> evaluateFor(b, r, expression, ItemPath(r, indexes[k]))]

AnyThrown(values) == \E k \in DOMAIN values : IsThrown(values[k])

\* The length of the source when it is an array: Array.isArray(source) ? ... : []
SourceLength(source) == IF IsArray(source) THEN Len(source.items) ELSE 0

\* The indexes of the source that 'where' lets through (616-620).
Filtered(b, r, source) ==
    LET Kept(all, values) ==
            IF AnyThrown(values) THEN Threw
            ELSE Indexes(SelectSeq(all, LAMBDA i : Truthy(values[i + 1])))
    IN IF IsThrown(source) THEN Threw
       ELSE IF r.where = null THEN Indexes([i \in 1..SourceLength(source) |-> i - 1])
       ELSE Kept([i \in 1..SourceLength(source) |-> i - 1],
                 ValuesAt(b, r, r.where, [i \in 1..SourceLength(source) |-> i - 1]))

\* The indexes sorted by 'orderby' (623-628).
Ordered(b, r, s) ==
    LET Indexed(sorted) == Indexes([k \in DOMAIN sorted |-> sorted[k].index])
        Sort(values) ==
            IF AnyThrown(values) THEN Threw
            ELSE Indexed(Sorted([k \in DOMAIN values |->
                                    [index |-> s.indexes[k], value |-> values[k]]],
                                1, <<>>))
    IN IF s.thrown \/ r.orderby = null THEN s
       ELSE Sort(ValuesAt(b, r, r.orderby, s.indexes))

\* A stage that keeps every index.
DistinctNone(b, r, s) == s

\* The indexes that 'distinct' keeps (631-634).
Distinct(b, r, s) ==
    LET Held(map) ==
            Indexes(SelectSeq(s.indexes,
                              LAMBDA index : \E i \in DOMAIN map : map[i].value = index))
        Keyed(reversed, keys) ==
            IF AnyThrown(keys) THEN Threw
            ELSE Held(NewMap([k \in DOMAIN keys |-> [key |-> keys[k], value |-> reversed[k]]],
                             1, <<>>))
    IN IF s.thrown \/ r.distinct = null THEN s
       ELSE Keyed(toReversed(s.indexes), ValuesAt(b, r, r.distinct, toReversed(s.indexes)))

\* The indexes that 'skip' and 'limit' leave (611-612, 637-638).
Skipped(b, r, s) ==
    LET From(skip) == IF IsThrown(skip) THEN Threw
                      ELSE IF skip # Null THEN Indexes(slice(s.indexes, skip, Undef))
                      ELSE s
    IN IF s.thrown \/ r.skip = null THEN s ELSE From(evaluate(b, r.skip).v)

Limited(b, r, s) ==
    LET To(limit) == IF IsThrown(limit) THEN Threw
                     ELSE IF limit # Null THEN Indexes(slice(s.indexes, Num(0), limit))
                     ELSE s
    IN IF s.thrown \/ r.limit = null THEN s ELSE To(evaluate(b, r.limit).v)

\* A wrong order of the stages: distinct before orderby.
TargetIndexesDistinctFirst(b, r) ==
    Limited(b, r, Skipped(b, r, Ordered(b, r, Distinct(b, r,
        Filtered(b, r, resolveValue(b, Str(r.list)).v)))))

\* The indexes of the target list, in its order.
TargetIndexes(b, r) ==
    Limited(b, r, Skipped(b, r, Distinct(b, r, Ordered(b, r,
        Filtered(b, r, resolveValue(b, Str(r.list)).v)))))

\* key.replace(/[^a-zA-Z0-9]/g, "_")
RECURSIVE Normalized(_)
Normalized(key) ==
    IF key = "" THEN ""
    ELSE (IF Char(key, 1) \in Letters \cup Digits THEN Char(key, 1) ELSE "_")
         \o Normalized(Slice(key, 2, Len(key)))

\* The key of the item at an index, or the error of toString() on null or
\* undefined (641-646).
KeyOf(b, r, index) ==
    LET Key(v) == IF IsThrown(v) THEN v
                  ELSE IF v.t \in {"null", "undef"} THEN TypeError
                  ELSE Str(ToString(r.itemIndex) \o "_" \o Normalized(ToStr(v)))
    IN Key(evaluateFor(b, r, r.key, ItemPath(r, index)))

\* indexes.map(...): the keys, each written to the index map as it is made.
\* Yields [keys, indexMap, thrown].
RECURSIVE NewKeys(_, _, _, _, _)
NewKeys(b, r, s, k, acc) ==
    LET Made(key) ==
            IF IsThrown(key) THEN [acc EXCEPT !.thrown = TRUE]
            ELSE NewKeys(b, r, s, k + 1,
                    [keys |-> Append(acc.keys, key),
                     indexMap |-> [x \in DOMAIN acc.indexMap \cup {key.s} |->
                                     IF x = key.s THEN s.indexes[k] ELSE acc.indexMap[x]],
                     thrown |-> FALSE])
    IN IF s.thrown THEN [acc EXCEPT !.thrown = TRUE]
       ELSE IF k > Len(s.indexes) THEN acc
       ELSE Made(KeyOf(b, r, s.indexes[k]))

\* A range without its upper bound: key < to.
RECURSIVE RangeKeysBelow(_, _, _, _, _)
RangeKeysBelow(b, r, key, to, acc) ==
    LET Kept(w, next) ==
            IF IsThrown(w) THEN [acc EXCEPT !.thrown = TRUE]
            ELSE RangeKeysBelow(b, r, next, to,
                    [acc EXCEPT !.keys = IF Truthy(w) THEN Append(@, key) ELSE @])
    IN IF ~Truthy(Infix("<", key, to)) THEN acc
       ELSE Kept(IF r.where = null THEN Bool(TRUE)
                 ELSE evaluateFor(b, r, r.where, ToStr(key)),
                 NumAdd(ToNumber(key), Num(1)))

\* for (let key = from; key <= to; key++) if (where) yield key  (757).
\* Yields [keys, thrown].
RECURSIVE RangeKeys(_, _, _, _, _)
RangeKeys(b, r, key, to, acc) ==
    LET Kept(w, next) ==
            IF IsThrown(w) THEN [acc EXCEPT !.thrown = TRUE]
            ELSE RangeKeys(b, r, next, to,
                    [acc EXCEPT !.keys = IF Truthy(w) THEN Append(@, key) ELSE @])
    IN IF ~Truthy(Infix("<=", key, to)) THEN acc
       ELSE Kept(IF r.where = null THEN Bool(TRUE)
                 ELSE evaluateFor(b, r, r.where, ToStr(key)),
                 NumAdd(ToNumber(key), Num(1)))


\* A node is the number it was created with; 0 is the start marker where
\* lastObj begins, -1 is null and -2 is undefined.
IsNode(obj) == obj > 0

Event(op, key, obj) == [op |-> op, key |-> key, obj |-> obj]

Without(a, x) == SelectSeq(a, LAMBDA y : y # x)

\* A wrong after: obj goes to the end of the nodes.
afterAtEnd(d, lastObj, obj) == Append(SelectSeq(d, LAMBDA y : y # obj), obj)

\* A wrong after: a node that is among the nodes stays where it is.
afterKeepingPlace(d, lastObj, obj) ==
    LET at == IF lastObj = 0 THEN 0
              ELSE IF \E i \in DOMAIN d : d[i] = lastObj
                   THEN CHOOSE i \in DOMAIN d : d[i] = lastObj
              ELSE -1
    IN IF at = -1 \/ \E i \in DOMAIN d : d[i] = obj THEN d
       ELSE SubSeq(d, 1, at) \o <<obj>> \o SubSeq(d, at + 1, Len(d))

\* lastObj.after(obj) among the nodes of the repeater: obj leaves its place
\* and goes behind lastObj; nothing happens behind a node that is detached.
after(d, lastObj, obj) ==
    LET Behind(rest, at) ==
            IF at = -1 THEN d
            ELSE SubSeq(rest, 1, at) \o <<obj>> \o SubSeq(rest, at + 1, Len(rest))
        Among(rest) ==
            Behind(rest, IF lastObj = 0 THEN 0
                         ELSE IF \E i \in DOMAIN rest : rest[i] = lastObj
                              THEN CHOOSE i \in DOMAIN rest : rest[i] = lastObj
                         ELSE -1)
    IN Among(Without(d, obj))

\* binding.keys.forEach((key, i) => { if (keysToRemove.includes(key)) ... })
\* (653-660): w is [keys, objs, dom, events, thrown].
RECURSIVE RemoveExisting(_, _, _)
RemoveExisting(w, keysToRemove, i) ==
    IF i > Len(w.keys) THEN w
    ELSE IF ~includes(keysToRemove, w.keys[i]) THEN RemoveExisting(w, keysToRemove, i + 1)
    ELSE IF ~IsNode(w.objs[i]) THEN [w EXCEPT !.thrown = TRUE]
    ELSE RemoveExisting(
            [w EXCEPT !.events = Append(@, Event("remove", w.keys[i], w.objs[i])),
                      !.dom = Without(@, w.objs[i]),
                      !.objs[i] = -1,
                      !.keys[i] = Null],
            keysToRemove, i + 1)

\* A wrong splice: the handled element stays in the list.
spliceNothing(a, index) == a

\* array.splice(index, 1), where index -1 is the last element.
splice1(a, index) ==
    IF a = <<>> THEN a
    ELSE IF index < 0 THEN SubSeq(a, 1, Len(a) - 1)
    ELSE SubSeq(a, 1, index) \o SubSeq(a, index + 2, Len(a))

\* newKeys.forEach((key) => ...) (666-691 and 779-800): p is [existingKeys,
\* existingObjs, lastObj, newObjs, dom, created, events, counter, thrown].
RECURSIVE Place(_, _, _, _, _)
Place(kind, newKeys, keysToAdd, k, p) ==
    LET Existing(key, index, old) ==
            IF kind = "for"
            THEN Place(kind, newKeys, keysToAdd, k + 1,
                    [p EXCEPT !.lastObj = old, !.newObjs = Append(@, old)])
            ELSE IF index > 0 /\ p.lastObj < 0 THEN [p EXCEPT !.thrown = TRUE]
            ELSE Place(kind, newKeys, keysToAdd, k + 1,
                    [p EXCEPT !.dom = IF index > 0 THEN after(@, p.lastObj, old) ELSE @,
                              !.events = IF index > 0
                                         THEN Append(@, Event("move", key, old)) ELSE @,
                              !.existingObjs = splice1(@, index),
                              !.existingKeys = splice1(@, index),
                              !.lastObj = old,
                              !.newObjs = Append(@, old)])
        Handle(key, index) ==
            IF includes(keysToAdd, key)
            THEN IF p.lastObj < 0 THEN [p EXCEPT !.thrown = TRUE]
                 ELSE Place(kind, newKeys, keysToAdd, k + 1,
                        [p EXCEPT !.dom = after(@, p.lastObj, p.created + 1),
                                  !.events = Append(@, Event("add", key, p.created + 1)),
                                  !.created = @ + 1,
                                  !.counter = @ + 1,
                                  !.lastObj = p.created + 1,
                                  !.newObjs = Append(@, p.created + 1)])
            ELSE Existing(key, index, IF index >= 0 THEN p.existingObjs[index + 1] ELSE -2)
    IN IF k > Len(newKeys) \/ p.thrown THEN p
       ELSE Handle(newKeys[k], indexOf(p.existingKeys, newKeys[k]))

\* What the reconciliation yields after the removals w and the placements p.
Reconciled(newKeys, c, w, p) ==
    IF w.thrown
    THEN [keys |-> w.keys, objs |-> w.objs, dom |-> w.dom, created |-> c,
          events |-> w.events, counter |-> 0, thrown |-> TRUE]
    ELSE IF p.thrown
    THEN [keys |-> w.keys, objs |-> w.objs, dom |-> p.dom, created |-> p.created,
          events |-> p.events, counter |-> p.counter, thrown |-> TRUE]
    ELSE [keys |-> newKeys, objs |-> p.newObjs, dom |-> p.dom, created |-> p.created,
          events |-> p.events, counter |-> p.counter, thrown |-> FALSE]

\* A wrong reconciliation: every node is removed and every key gets a new node.
ReconcileRecreating(kind, keys, objs, d, c, newKeys) ==
    LET Placed(p) ==
            [keys |-> newKeys, objs |-> p.newObjs, dom |-> p.dom, created |-> p.created,
             events |-> p.events, counter |-> 0, thrown |-> FALSE]
        Removed(w) ==
            Placed(Place(kind, newKeys, newKeys, 1,
                         [existingKeys |-> <<>>, existingObjs |-> <<>>,
                          lastObj |-> 0, newObjs |-> <<>>, dom |-> w.dom, created |-> c,
                          events |-> w.events, counter |-> 0, thrown |-> FALSE]))
    IN Removed(RemoveExisting([keys |-> keys, objs |-> objs, dom |-> d,
                               events |-> <<>>, thrown |-> FALSE], keys, 1))

\* A wrong reconciliation: the nodes of the keys that left are dropped from
\* the record without being removed.
ReconcileForgetting(kind, keys, objs, d, c, newKeys) ==
    LET Placed(p) ==
            [keys |-> newKeys, objs |-> p.newObjs, dom |-> p.dom, created |-> p.created,
             events |-> p.events, counter |-> p.counter, thrown |-> FALSE]
    IN Placed(Place(kind, newKeys, SelectSeq(newKeys, LAMBDA x : ~includes(keys, x)), 1,
                    [existingKeys |-> SelectSeq(keys, LAMBDA x : includes(newKeys, x)),
                     existingObjs |-> SelectSeq(objs, LAMBDA o :
                                         \E i \in DOMAIN keys :
                                            includes(newKeys, keys[i]) /\ objs[i] = o),
                     lastObj |-> 0, newObjs |-> <<>>, dom |-> d, created |-> c,
                     events |-> <<>>, counter |-> 0, thrown |-> FALSE]))

\* The second half of refresh (648-694 and 759-804), from the new keys on:
\* keysToRemove and keysToAdd, the removals, then the placements.  Yields
\* [keys, objs, dom, created, events, counter, thrown].
Reconcile(kind, keys, objs, d, c, newKeys) ==
    LET Removed(w) ==
            Reconciled(newKeys, c, w,
                Place(kind, newKeys, SelectSeq(newKeys, LAMBDA x : ~includes(keys, x)), 1,
                      [existingKeys |-> SelectSeq(w.keys, LAMBDA x : x # Null),
                       existingObjs |-> SelectSeq(w.objs, LAMBDA x : x # -1),
                       lastObj |-> 0, newObjs |-> <<>>, dom |-> w.dom, created |-> c,
                       events |-> w.events, counter |-> 0, thrown |-> FALSE]))
    IN Removed(RemoveExisting([keys |-> keys, objs |-> objs, dom |-> d,
                               events |-> <<>>, thrown |-> FALSE],
                              SelectSeq(keys, LAMBDA x : ~includes(newKeys, x)), 1))


\* What a refresh yields: the binding, the nodes, the index map, the events,
\* the count of added nodes and whether it threw.
Refreshed(r, d, c, imap, ev, counter, thrown) ==
    [binding |-> r, dom |-> d, created |-> c, indexMap |-> imap, events |-> ev,
     counter |-> counter, thrown |-> thrown]

\* #eachDirective.refresh, for one binding: the target indexes, their keys,
\* and the reconciliation of the nodes with the keys.
eachRefresh(b, r, d, c) ==
    LET Done(made, x) ==
            IF made.thrown THEN Refreshed(r, d, c, made.indexMap, <<>>, 0, TRUE)
            ELSE Refreshed([r EXCEPT !.keys = x.keys, !.objs = x.objs], x.dom, x.created,
                           made.indexMap, x.events, x.counter, x.thrown)
        Keyed(made) == Done(made, Reconcile("each", r.keys, r.objs, d, c, made.keys))
    IN Keyed(NewKeys(b, r, TargetIndexes(b, r), 1,
                     [keys |-> <<>>, indexMap |-> b.indexMap, thrown |-> FALSE]))

\* [from, to] = [fromTree.evaluate(), toTree.evaluate()]  (751-752)
RangeBounds(b, r) == [k \in 1..2 |-> evaluate(b, <<r.from, r.to>>[k]).v]

\* #forDirective.refresh, for one binding.
forRefresh(b, r, d, c) ==
    LET Done(x) ==
            Refreshed([r EXCEPT !.keys = x.keys, !.objs = x.objs], x.dom, x.created,
                      b.indexMap, x.events, x.counter, x.thrown)
        Keyed(made) ==
            IF made.thrown THEN Refreshed(r, d, c, b.indexMap, <<>>, 0, TRUE)
            ELSE Done(Reconcile("for", r.keys, r.objs, d, c, made.keys))
        Range(bounds) ==
            IF AnyThrown(bounds) THEN [keys |-> <<>>, thrown |-> TRUE]
            ELSE RangeKeys(b, r, bounds[1], bounds[2], [keys |-> <<>>, thrown |-> FALSE])
    IN Keyed(Range(RangeBounds(b, r)))

\* JSBinder.#isPlainObject
isPlainObject(x) == x.t = "obj"

\* delete state[key] and state[key] = value, on an object of the model.
DeleteMember(x, key) ==
    [x EXCEPT !.keys = SelectSeq(@, LAMBDA y : y # key),
              !.items = [i \in 1..Len(SelectSeq(x.keys, LAMBDA y : y # key)) |->
                           x.items[CHOOSE j \in DOMAIN x.keys :
                                      /\ x.keys[j] # key
                                      /\ Cardinality({ n \in 1..j : x.keys[n] # key }) = i]]]

SetMember(x, key, value) ==
    IF \E i \in DOMAIN x.keys : x.keys[i] = key
    THEN [x EXCEPT !.items[CHOOSE i \in DOMAIN x.keys : x.keys[i] = key] = value]
    ELSE [x EXCEPT !.keys = Append(@, key), !.items = Append(@, value)]

\* The recurse of setState (160-163): the members of updates one by one, a
\* member that is a plain object merged into state[key] || {}.
RECURSIVE merge(_, _, _)
merge(st, updates, k) ==
    LET Set(key, value, held) ==
            merge(IF value.t = "undef" THEN DeleteMember(st, key)
                  ELSE IF isPlainObject(value)
                       THEN SetMember(st, key,
                                merge(IF Truthy(held) THEN held ELSE Obj(0, <<>>, <<>>),
                                      value, 1))
                  ELSE SetMember(st, key, value),
                  updates, k + 1)
    IN IF k > Len(updates.keys) THEN st
       ELSE Set(updates.keys[k], updates.items[k], Member(st, updates.keys[k]))

-----------------------------------------------------------------------------
(* The ChangeDetector *)

\* JSBinder.#ChangeDetector: #current = null, #first = true
NewChangeDetector == [first |-> TRUE, current |-> Null]

\* check(value): true on the first call or when value !== #current.
checkChanged(m, value) == m.first \/ ~StrictEquals(value, m.current)

checkMemo(m, value) ==
    IF checkChanged(m, value) THEN [first |-> FALSE, current |-> value] ELSE m

-----------------------------------------------------------------------------
(* The refresh pass, of a page with a repeater and a data-bind element       *)

\* JSBinder.#isNullish
isNullish(x) == x.t \in {"undef", "null"} \/ x = Str("")

\* #bindDirective.refresh for one binding on an element that is no form
\* control (981-986): v is [tree, memo] of the binding.  Yields the memo, the
\* write to innerHTML and the jsbinder-bind event, and whether evaluate threw.
bindRefresh(b, v) ==
    LET Bound(value) ==
            IF IsThrown(value) THEN [memo |-> v.memo, events |-> <<>>, thrown |-> TRUE]
            ELSE [memo |-> checkMemo(v.memo, value),
                  events |-> IF checkChanged(v.memo, value)
                             THEN << Event("innerHTML",
                                        Str(IF isNullish(value) THEN "" ELSE ToStr(value)), 0),
                                     Event("bind", value, 0) >>
                             ELSE <<>>,
                  thrown |-> FALSE]
    IN Bound(evaluateExpressionTree(b, v.tree).v)

\* The refresh of the repeater of the page: x is what it yields.
repeaterRefresh(b, r, d, c) ==
    CASE r.kind = "each" -> eachRefresh(b, r, d, c)
      [] r.kind = "for" -> forRefresh(b, r, d, c)
      [] OTHER -> Refreshed(r, d, c, b.indexMap, <<>>, 0, FALSE)

\* The refresh of the data-bind element after the repeater's, when one is
\* registered and the repeater's did not throw.
bindAfter(b, v, x) ==
    IF v.registered /\ ~x.thrown
    THEN bindRefresh([b EXCEPT !.indexMap = x.indexMap], v)
    ELSE [memo |-> v.memo, events |-> <<>>, thrown |-> FALSE]

\* #refresh (1326-1331): the repeater, then the data-bind element when one
\* is registered; when nodes were added, #register runs and refreshes again
\* (1321-1324).  Yields what the repeater's refresh yields and the memo.
RECURSIVE refresh(_, _, _, _, _, _)
RECURSIVE refreshAll(_, _, _, _, _)

refreshAll(b, v, ev, x, y) ==
    IF x.thrown \/ y.thrown \/ x.counter = 0
    THEN [binding |-> x.binding, dom |-> x.dom, created |-> x.created,
          indexMap |-> x.indexMap, events |-> ev \o x.events \o y.events,
          memo |-> y.memo, thrown |-> x.thrown \/ y.thrown]
    ELSE refresh([b EXCEPT !.indexMap = x.indexMap], x.binding, x.dom, x.created,
                 [v EXCEPT !.memo = y.memo], ev \o x.events \o y.events)

refreshBound(b, v, ev, x) == refreshAll(b, v, ev, x, bindAfter(b, v, x))

refresh(b, r, d, c, v, ev) == refreshBound(b, v, ev, repeaterRefresh(b, r, d, c))

-----------------------------------------------------------------------------
(* The expression scenario: an expression is compiled once (a binding's     *)
(* ExpressionTree), evaluated against the state up to MaxEvals times, and   *)
(* each result is handed to the binding's ChangeDetector.                   *)

MaxEvals == 2

Binder == [state |-> state, functions |-> functions, indexMap |-> indexMap]

NoTree == Undef

\* new JSBinder.#ExpressionTree(binder, expression)
Compile ==
    /\ pc = "new"
    /\ tree' = buildTree(exp)
    /\ pc' = "built"
    /\ UNCHANGED <<exp, state, functions, indexMap, result, evlog, memo, checks>>
    /\ UNCHANGED <<repeaterVars, schedVars, pageVars, handlerVars, documentVars>>

\* expressionTree.evaluate()
Evaluate ==
    /\ pc = "built"
    /\ Len(result) < MaxEvals
    /\ Len(checks) = Len(result)
    /\ \E r \in { evaluateExpressionTree(Binder, tree) } :
          /\ result' = Append(result, r.v)
          /\ evlog' = r.log
    /\ UNCHANGED <<exp, tree, state, functions, indexMap, memo, checks, pc>>
    /\ UNCHANGED <<repeaterVars, schedVars, pageVars, handlerVars, documentVars>>

\* binding.modified.check(result), for the result of the last evaluation; an
\* evaluation that threw hands nothing to the ChangeDetector.
Check ==
    /\ pc = "built"
    /\ Len(checks) < Len(result)
    /\ LET value == result[Len(result)]
       IN IF IsThrown(value)
          THEN /\ checks' = Append(checks, FALSE)
               /\ memo' = memo
          ELSE /\ checks' = Append(checks, checkChanged(memo, value))
               /\ memo' = checkMemo(memo, value)
    /\ UNCHANGED <<exp, tree, state, functions, indexMap, result, evlog, pc>>
    /\ UNCHANGED <<repeaterVars, schedVars, pageVars, handlerVars, documentVars>>

NextExpr == Compile \/ Evaluate \/ Check

\* No instance is constructed on root yet.
NoInstance ==
    /\ root = [jsbinder |-> FALSE]
    /\ binders = <<>>

\* No template is registered and no element asks for one.
NoTemplate ==
    /\ templates = <<>>
    /\ renders = <<>>
    /\ rounds = 0
    /\ textContent = ""

\* The directives have no binding: #bindings = [].
NoPage ==
    /\ page = <<>>
    /\ updated = <<>>
    /\ ifs = <<>>
    /\ history = <<>>
    /\ NoTemplate
    /\ NoInstance

\* No element has a listener.
NoHandler ==
    /\ handler = [type |-> "none"]
    /\ handled = <<>>
    /\ refs = {}

\* #needsRegister = false, #needsRefresh = false, #microtaskQueued = false
\* (1303-1306): nothing is queued, no callback has run, no pass has begun.
NoScheduler ==
    /\ needsRegister = FALSE
    /\ needsRefresh = FALSE
    /\ microtaskQueued = FALSE
    /\ microtasks = 0
    /\ task = "idle"
    /\ turn = [sets |-> 0, scans |-> 0]
    /\ job = [n |-> 0, sets |-> 0, scans |-> 0, state |-> Undef]
    /\ passes = <<>>

\* No directive has a binding, nothing is queued.
NoDirective ==
    /\ binding = [kind |-> "none"]
    /\ dom = <<>>
    /\ created = 0
    /\ events = <<>>
    /\ before = [keys |-> <<>>, objs |-> <<>>]
    /\ refreshed = FALSE
    /\ calls = 0
    /\ NoScheduler
    /\ NoPage

\* No repeater is registered.
NoRepeater ==
    /\ NoDirective
    /\ NoHandler

\* No tree is built of the expression yet.
NoEvaluation ==
    /\ tree = NoTree
    /\ result = <<>>
    /\ evlog = <<>>
    /\ memo = NewChangeDetector
    /\ checks = <<>>
    /\ pc = "new"

InitScenario ==
    /\ NoEvaluation
    /\ NoRepeater

\* An element has the listener h, which has not been called.
InitListener(h) ==
    /\ NoEvaluation
    /\ NoDirective
    /\ handler = h
    /\ handled = <<>>
    /\ refs = {}

EmptyState == Obj(1, <<>>, <<>>)

-----------------------------------------------------------------------------
(* SpecPrec: expressions of literals and binary operators *)

MaxOps == 2

PrecLiterals == {"1", "2"}

PrecOperators == { InfixOperators[i] : i \in DOMAIN InfixOperators }

\* One operator of each tier, for the expressions of more than two operators.
TierOperators == {"**", "%", "-", ">>", "<", "==", "&", "^", "|", "&&", "||", "??"}

\* The expressions literal (operator literal)^k: of every operator for k <= 2,
\* of one operator of each tier beyond.
RECURSIVE PrecExprsOf(_, _)
PrecExprsOf(k, ops) ==
    IF k = 0 THEN PrecLiterals
    ELSE { e \o " " \o op \o " " \o l :
             e \in PrecExprsOf(k - 1, ops), op \in ops, l \in PrecLiterals }

PrecExprs(k) == PrecExprsOf(k, IF k <= 2 THEN PrecOperators ELSE TierOperators)

PrecExamples == {"2 + 3 * 4", "2 ** 3 ** 2", "10 - 3 - 2"}

PrecInputs == UNION { PrecExprs(k) : k \in 0..MaxOps } \cup PrecExamples

InitPrec ==
    /\ exp \in PrecInputs
    /\ state = EmptyState
    /\ functions = {}
    /\ indexMap = <<>>
    /\ InitScenario

\* The first evaluation of the compiled expression.
EvaluateFirst == result = <<>> /\ Evaluate

NextPrec == Compile \/ EvaluateFirst

SpecPrec == InitPrec /\ [][NextPrec]_vars

\* The words of a text whose words are separated by single spaces.
RECURSIVE Words(_, _, _)
Words(s, i, cur) ==
    IF i > Len(s) THEN <<cur>>
    ELSE IF Char(s, i) = " " THEN <<cur>> \o Words(s, i + 1, "")
    ELSE Words(s, i + 1, cur \o Char(s, i))

\* The precedence tier of a binary operator, 1 the tightest.
RefTier(op) ==
    CASE op = "**" -> 1
      [] op \in {"*", "/", "%"} -> 2
      [] op \in {"+", "-"} -> 3
      [] op \in {"<<", ">>", ">>>"} -> 4
      [] op \in {">=", ">", "<=", "<"} -> 5
      [] op \in {"===", "==", "!==", "!="} -> 6
      [] op = "&" -> 7
      [] op = "^" -> 8
      [] op = "|" -> 9
      [] op = "&&" -> 10
      [] op = "||" -> 11
      [] op = "??" -> 12

RefLiteral(text) ==
    CASE text = "1" -> Num(1) [] text = "2" -> Num(2) [] text = "3" -> Num(3)
      [] text = "4" -> Num(4) [] text = "10" -> Num(10)

\* Where a fully parenthesised reading splits operand (op operand)*: at the
\* last operator of the loosest tier, or at the first ** of a chain of **.
RefSplit(toks) ==
    LET opsAt == { i \in DOMAIN toks : i % 2 = 0 }
        loosest == CHOOSE t \in { RefTier(toks[i]) : i \in opsAt } :
                      \A i \in opsAt : RefTier(toks[i]) <= t
        at == { i \in opsAt : RefTier(toks[i]) = loosest }
    IN IF loosest = 1 THEN CHOOSE i \in at : \A j \in at : i <= j
       ELSE CHOOSE i \in at : \A j \in at : i >= j

RECURSIVE RefValue(_)
RefValue(toks) ==
    IF Len(toks) = 1 THEN RefLiteral(toks[1])
    ELSE LET i == RefSplit(toks)
         IN Infix(toks[i], RefValue(SubSeq(toks, 1, i - 1)),
                  RefValue(SubSeq(toks, i + 1, Len(toks))))

RECURSIVE RefGroup(_)
RefGroup(toks) ==
    IF Len(toks) = 1 THEN Str(toks[1])
    ELSE LET i == RefSplit(toks)
         IN Arr(0, << RefGroup(SubSeq(toks, 1, i - 1)), Str(toks[i]),
                      RefGroup(SubSeq(toks, i + 1, Len(toks))) >>)

RefTree(toks) == IF Len(toks) = 1 THEN Arr(0, <<Str(toks[1])>>) ELSE RefGroup(toks)

\* C1: an expression of literals and binary operators is grouped by the
\* precedence tiers, left to right within a tier and right to left for **, and
\* every evaluation yields the value of the fully parenthesised expression;
\* "2 + 3 * 4" is 14, "2 ** 3 ** 2" is 512 and "10 - 3 - 2" is 5.
C1_Precedence ==
    pc = "built" =>
        /\ tree = RefTree(Words(exp, 1, ""))
        /\ \A i \in DOMAIN result : result[i] = RefValue(Words(exp, 1, ""))
        /\ (exp = "2 + 3 * 4" => \A i \in DOMAIN result : result[i] = Num(14))
        /\ (exp = "2 ** 3 ** 2" => \A i \in DOMAIN result : result[i] = Num(512))
        /\ (exp = "10 - 3 - 2" => \A i \in DOMAIN result : result[i] = Num(5))

\* An expression whose looser operator comes first has been evaluated, the
\* tighter operator grouped first.
C1_Witness ==
    /\ exp = "1 + 2 * 2"
    /\ result = << Num(5) >>

NoUnmodelledResult == \A i \in DOMAIN result : result[i].t # "unmodelled"

-----------------------------------------------------------------------------
(* SpecExpr: ternaries, paths, custom functions and the ChangeDetector       *)

\* A state of scalars, a nested object, two arrays and a null member.
ExprState ==
    Obj(1, <<"flag", "p", "q", "list", "one", "n">>,
        << Bool(TRUE), Num(5), Obj(2, <<"r">>, <<Str("s")>>),
           Arr(3, <<Num(1), Num(2)>>), Arr(4, <<Num(7)>>), Null >>)

ExprStates == {EmptyState, ExprState}

TernaryConditions ==
    {"true", "false", "flag", "p > 3", "undefinedPath.x", "q.r", "0", "NaN", "null"}

TernaryBranches ==
    {"1", "'yes'", "p", "q.r", "undefinedPath.x", "q.zz.y", "p + 1",
     "(#inc(p))", "(#neg(flag))"}

Ternary(c, a, b) == c \o " ? " \o a \o " : " \o b

TernaryInputs ==
    { Ternary(c, a, b) : c \in TernaryConditions, a \in TernaryBranches,
                         b \in TernaryBranches }

PlainInputs ==
    {"p", "p * 2", "q.r", "'a' + p", "undefinedPath.x", "undefinedPath.x * 2", "NaN",
     "0 / 0", "list", "one", "q", "list.length", "#inc(p)", "! flag", "n"}

ExprInputs == TernaryInputs \cup PlainInputs

InitExpr ==
    /\ exp \in ExprInputs
    /\ state \in ExprStates
    /\ functions = FunctionNames
    /\ indexMap = <<>>
    /\ InitScenario

SpecExpr == InitExpr /\ [][NextExpr]_vars

\* The condition and the branches of one of the TernaryInputs.
TernaryCondition(e) == Slice(e, 1, IndexFrom(e, " ? ", 1) - 1)
TernaryThen(e) == Slice(e, IndexFrom(e, " ? ", 1) + 3, IndexFrom(e, " : ", 1) - 1)
TernaryElse(e) == Slice(e, IndexFrom(e, " : ", 1) + 3, Len(e))

\* The pieces of a text between the occurrences of a separating character.
RECURSIVE Pieces(_, _, _, _)
Pieces(s, sep, i, cur) ==
    IF i > Len(s) THEN <<cur>>
    ELSE IF Char(s, i) = sep THEN <<cur>> \o Pieces(s, sep, i + 1, "")
    ELSE Pieces(s, sep, i + 1, cur \o Char(s, i))

\* The member of the state at a dotted path: undefined once a segment is missing.
RECURSIVE RefLookup(_, _, _)
RefLookup(x, segs, i) ==
    IF i > Len(segs) THEN x
    ELSE IF x.t = "obj" /\ \E k \in DOMAIN x.keys : x.keys[k] = segs[i]
         THEN RefLookup(x.items[CHOOSE k \in DOMAIN x.keys : x.keys[k] = segs[i]],
                        segs, i + 1)
    ELSE Undef

\* The value of a literal or of a path.
RefLeaf(st, text) ==
    CASE text = "true" -> Bool(TRUE)
      [] text = "false" -> Bool(FALSE)
      [] text = "null" -> Null
      [] text = "NaN" -> NaN
      [] text = "0" -> Num(0)
      [] text = "1" -> Num(1)
      [] text = "3" -> Num(3)
      [] text = "'yes'" -> Str("yes")
      [] OTHER -> RefLookup(st, Pieces(text, ".", 1, ""), 1)

\* The value of an operand: leaf, leaf operator leaf, or (#function(leaf)).
RefOperand(st, text) ==
    LET w == Words(text, 1, "")
    IN IF Len(w) = 3 THEN Infix(w[2], RefLeaf(st, w[1]), RefLeaf(st, w[3]))
       ELSE IF Char(text, 1) = "("
            THEN Apply(Slice(text, 2, 5), RefLeaf(st, Slice(text, 7, Len(text) - 2)))
       ELSE RefLeaf(st, text)

\* The branch a ternary takes.
RefTaken(st, e) ==
    IF Truthy(RefOperand(st, TernaryCondition(e))) THEN TernaryThen(e) ELSE TernaryElse(e)

Leaves(text) == IF Len(Words(text, 1, "")) = 3 THEN 2 ELSE 1
Calls(text) == IF Char(text, 1) = "(" THEN 1 ELSE 0

\* The events of a kind in the log of an evaluation.
Events(log, kind) == { i \in DOMAIN log : log[i].kind = kind }

\* C3: the evaluation of a ternary resolves the leaves of the condition and of
\* the taken branch only, and invokes the custom functions of these only.
C3_OnlyTakenBranch ==
    (exp \in TernaryInputs /\ result # <<>>) =>
        LET c == TernaryCondition(exp)
            taken == RefTaken(state, exp)
        IN /\ Cardinality(Events(evlog, "resolve")) = Leaves(c) + Leaves(taken)
           /\ Cardinality(Events(evlog, "call")) = Calls(c) + Calls(taken)

\* C4: the evaluations of an expression against an unchanged state yield the
\* same result each time, and the ChangeDetector given these results reports a
\* change on the first check and none on the later ones.
C4_Idempotent ==
    /\ \A i \in DOMAIN result : result[i] = result[1]
    /\ \A i \in DOMAIN checks : ~IsThrown(result[i]) => (checks[i] <=> (i = 1))

-----------------------------------------------------------------------------
(* SpecResolve: paths of the state, with present and absent segments         *)

\* Paths with a segment that ExprState does not hold: a missing member, a
\* member of a scalar, of a string, of an element out of range, of null.
AbsentPaths ==
    {"zz", "q.zz", "q.zz.y", "undefinedPath.x", "p.x", "p.x.y", "flag.x",
     "q.r.x", "list.5", "list[5].x", "n.x", "n.x.y"}

PresentPaths == {"p", "q", "q.r", "n", "list[0]", "one.length", "q.r.length"}

InitResolve ==
    /\ exp \in AbsentPaths \cup PresentPaths
    /\ state \in ExprStates
    /\ functions = FunctionNames
    /\ indexMap = <<>>
    /\ InitScenario

SpecResolve == InitResolve /\ [][NextExpr]_vars

\* SpecPaths: expressions that are one path and nothing else, over states
\* that hold scalars, objects and arrays of different lengths and contents.
SinglePaths ==
    {"p", "q", "q.r", "flag", "n", "list", "one", "none", "sum", "neg", "deep", "call",
     "tern", "zz"}

PathState ==
    Obj(1, <<"p", "q", "flag", "n", "list", "one", "none", "sum", "neg", "deep", "call", "tern">>,
        << Num(5), Obj(2, <<"r">>, << Arr(3, << Str("s") >>) >>), Bool(FALSE), Null,
           Arr(4, << Num(1), Num(2) >>), Arr(5, << Num(7) >>), Arr(6, <<>>),
           Arr(7, << Num(1), Str("+"), Num(2) >>), Arr(8, << Str("!"), Bool(TRUE) >>),
           Arr(9, << Arr(10, << Num(1), Num(2) >>) >>), Arr(11, << Str("#inc"), Num(5) >>),
           Arr(12, << Bool(TRUE), Str("?"), Num(1), Str(":"), Num(2) >>) >>)

InitPaths ==
    /\ exp \in SinglePaths
    /\ state \in {ExprState, PathState}
    /\ functions = FunctionNames
    /\ indexMap = <<>>
    /\ InitScenario

SpecPaths == InitPaths /\ [][NextExpr]_vars

\* C17: resolving a path without forbidden names never throws, and yields
\* undefined when a segment of the path is absent, also behind a member
\* that is null or a scalar.
C17_AbsenceIsUndefined ==
    \A i \in DOMAIN result :
        /\ ~IsThrown(result[i])
        /\ (state = EmptyState \/ exp \in AbsentPaths) => result[i] = Undef

-----------------------------------------------------------------------------
(* SpecMalformed: expressions that no grammar of expressions accepts         *)

\* Unbalanced parentheses, a dangling operator, two operands side by side.
MalformedInputs ==
    {"(1", "1)", "(1 + 2", "1 + 2) * 3",
     "1 +", "p *", "1 + * 2",
     "1 2", "p q", "p 'a'"}

InitMalformed ==
    /\ exp \in MalformedInputs
    /\ state \in ExprStates
    /\ functions = FunctionNames
    /\ indexMap = <<>>
    /\ InitScenario

SpecMalformed == InitMalformed /\ [][NextExpr]_vars

\* C19: a malformed expression is rejected when it is parsed, with an error
\* that reaches the caller; no tree is built of it and no evaluation of it
\* yields a value.
C19_Rejected ==
    exp \in MalformedInputs =>
        /\ pc = "built" => IsThrown(tree)
        /\ \A i \in DOMAIN result : IsThrown(result[i])

-----------------------------------------------------------------------------
(* SpecFunctions: expressions that call custom functions, which addFunction  *)
(* registers before or after the expression is parsed                        *)

\* addFunction(name, method) (220-228), for a name and a method that pass
\* its two tests: #functions = { ...#functions, ["#" + name]: method }.
AddFunction ==
    /\ \E fn \in FunctionNames \ functions : functions' = functions \cup {fn}
    /\ UNCHANGED <<exp, tree, state, indexMap, result, evlog, memo, checks, pc>>
    /\ UNCHANGED <<repeaterVars, schedVars, pageVars, handlerVars, documentVars>>

\* Calls of #inc and #neg, which addFunction may register, and of #foo,
\* which nothing registers.
FunctionInputs ==
    {"#inc(p)", "#neg(flag)", "#inc(p + 1)", "#inc(q.r)", "1 + (#inc(p))",
     "#foo(p)", "#foo(p + 1)", "1 + (#foo(p))"}

InitFunctions ==
    /\ exp \in FunctionInputs
    /\ state = ExprState
    /\ functions = {}
    /\ indexMap = <<>>
    /\ InitScenario

NextFunctions == Compile \/ AddFunction \/ Evaluate \/ Check

SpecFunctions == InitFunctions /\ [][NextFunctions]_vars

\* The function that one of the FunctionInputs calls, and the value of the
\* argument of the call in ExprState.
CalledFunction(e) == Slice(e, IndexFrom(e, "#", 1), IndexFrom(e, "#", 1) + 3)

RefArgument(e) ==
    CASE e \in {"#inc(p)", "#foo(p)", "1 + (#inc(p))", "1 + (#foo(p))"} -> Num(5)
      [] e \in {"#inc(p + 1)", "#foo(p + 1)"} -> Num(6)
      [] e = "#inc(q.r)" -> Str("s")
      [] e = "#neg(flag)" -> Bool(TRUE)

\* An evaluation that has found the function registered: it has invoked it
\* once, with the value of its argument, and nothing else.
InvokedOnce(e, log) ==
    /\ Cardinality(Events(log, "call")) = 1
    /\ \A i \in Events(log, "call") : log[i] = Invoked(CalledFunction(e), RefArgument(e))

\* C20: an evaluation of a call of a function that is not registered when
\* the evaluation runs reports an error and yields no value; an evaluation
\* of a call of a function that is registered by then, also when it was
\* registered after the expression was parsed, invokes it with one
\* evaluated argument.
C20_Functions ==
    [][result' # result =>
          IF CalledFunction(exp) \in functions
          THEN /\ InvokedOnce(exp, evlog')
               /\ ~IsThrown(result'[Len(result')])
          ELSE IsThrown(result'[Len(result')])]_vars

\* C20 (the second half alone): an evaluation of a call of a function that
\* is registered when the evaluation runs invokes it once, with the value of
\* its argument.
C20_RegisteredLater ==
    [][(result' # result /\ CalledFunction(exp) \in functions) =>
          /\ InvokedOnce(exp, evlog')
          /\ ~IsThrown(result'[Len(result')])]_vars

\* C20 (the second half, reached): #inc was registered after "#inc(p)" was
\* parsed and before it was evaluated, and the evaluation yielded 6.
C20_Witness ==
    /\ exp = "#inc(p)"
    /\ "#inc" \in functions
    /\ result = << Num(6) >>
    /\ evlog = << Resolved("p"), Invoked("#inc", Num(5)) >>

-----------------------------------------------------------------------------
(* SpecCalls: a call of a custom function as an operand                      *)

\* A call f(e) left or right of an operator and an operand y, or behind "!".
CallCases ==
    [f : {"#inc"}, e : {"p"}, op : {"*", "+", "-", "==="}, y : {"3"},
     form : {"left", "right"}]
    \cup [f : {"#neg"}, e : {"flag"}, op : {"&&", "==="}, y : {"true"},
          form : {"left", "right"}]
    \cup [f : {"#inc", "#neg"}, e : {"p"}, op : {"!"}, y : {""}, form : {"not"}]

CallText(c) ==
    CASE c.form = "left" -> c.f \o "(" \o c.e \o ") " \o c.op \o " " \o c.y
      [] c.form = "right" -> c.y \o " " \o c.op \o " " \o c.f \o "(" \o c.e \o ")"
      [] c.form = "not" -> "!" \o c.f \o "(" \o c.e \o ")"

CallInputs == { CallText(c) : c \in CallCases }

InitCalls ==
    /\ exp \in CallInputs
    /\ state \in ExprStates
    /\ functions = FunctionNames
    /\ indexMap = <<>>
    /\ InitScenario

SpecCalls == InitCalls /\ [][NextExpr]_vars

\* The value that the case is to have: the function applied to the value of
\* its argument, and the operator applied to that and to the other operand.
RefCall(st, c) ==
    CASE c.form = "left" -> Infix(c.op, Apply(c.f, RefLeaf(st, c.e)), RefLeaf(st, c.y))
      [] c.form = "right" -> Infix(c.op, RefLeaf(st, c.y), Apply(c.f, RefLeaf(st, c.e)))
      [] c.form = "not" -> Prefix("!", Apply(c.f, RefLeaf(st, c.e)))

\* C24: a call of a registered function that is an operand of an expression
\* applies the function to its argument in parentheses only: "#f(e) op y" is
\* f(e) op y, "y op #f(e)" is y op f(e), and "!#f(e)" is the negation of f(e).
C24_CallIsOperand ==
    \A c \in CallCases :
        exp = CallText(c) => \A i \in DOMAIN result : result[i] = RefCall(state, c)

-----------------------------------------------------------------------------
(* SpecEach: a repeater over a state that setState changes between passes    *)

MaxUpdates == 1
MaxRange == 3

ItemA == Obj(11, <<"k", "t", "d">>, << Str("a"), Str("Gas"), Num(5) >>)
ItemB == Obj(12, <<"k", "t", "d">>, << Str("b"), Str("Gas"), Num(1) >>)
ItemC == Obj(13, <<"k", "t", "d">>, << Str("c"), Str("Ice"), Num(9) >>)

Items == {ItemA, ItemB, ItemC}

\* The lists of different items.
ItemLists ==
    UNION { { l \in [1..n -> Items] : \A i, j \in 1..n : l[i] = l[j] => i = j } :
              n \in 0..Cardinality(Items) }

\* The record that register pushes (582-597 and 733-743), keys and objs empty.
EachBinding(where, orderby, distinct, skip, limit) ==
    [kind |-> "each", itemIndex |-> 0, alias |-> "x", list |-> "items", key |-> "@x.k",
     where |-> where, orderby |-> orderby, distinct |-> distinct, skip |-> skip,
     limit |-> limit, from |-> null, to |-> null, keys |-> <<>>, objs |-> <<>>]

ForBinding(where) ==
    [kind |-> "for", itemIndex |-> 0, alias |-> "i", list |-> null, key |-> null,
     where |-> where, orderby |-> null, distinct |-> null, skip |-> null,
     limit |-> null, from |-> "lo", to |-> "hi", keys |-> <<>>, objs |-> <<>>]

EachBindings ==
    { EachBinding(where, orderby, distinct, skip, limit) :
        where \in {null, "@x.t == 'Gas'"}, orderby \in {null, "@x.d"},
        distinct \in {null, "@x.t"}, skip \in {null, "1"}, limit \in {null, "1"} }

ForBindings == { ForBinding(where) : where \in {null, "@i % 2 == 1"} }

\* The states that setState is called with.
Updates(kind) ==
    IF kind = "each"
    THEN { Obj(0, <<"items">>, << Arr(2, l) >>) : l \in ItemLists }
    ELSE { Obj(0, <<"lo", "hi">>, << Num(lo), Num(hi) >>) : lo, hi \in 1..MaxRange }

\* A repeater is registered and has not been refreshed yet.
InitRepeater(bindings) ==
    /\ binding \in bindings
    /\ state \in { merge(EmptyState, data, 1) : data \in Updates(binding.kind) }
    /\ functions = {}
    /\ indexMap = <<>>
    /\ exp = ""
    /\ tree = NoTree
    /\ result = <<>>
    /\ evlog = <<>>
    /\ memo = NewChangeDetector
    /\ checks = <<>>
    /\ pc = "idle"
    /\ dom = <<>>
    /\ created = 0
    /\ events = <<>>
    /\ before = [keys |-> <<>>, objs |-> <<>>]
    /\ refreshed = FALSE
    /\ calls = 0
    /\ NoScheduler
    /\ NoPage
    /\ NoHandler

InitEach == InitRepeater({EachBinding(null, null, null, null, null)} \cup ForBindings)

\* binder.setState(data)
SetState ==
    /\ calls < MaxUpdates
    /\ calls' = calls + 1
    /\ \E data \in Updates(binding.kind) :
          /\ state' = merge(state, data, 1)
          /\ state' # state
    /\ events' = <<>>
    /\ before' = [keys |-> <<>>, objs |-> <<>>]
    /\ refreshed' = FALSE
    /\ UNCHANGED <<exp, tree, functions, indexMap, result, evlog, memo, checks, pc>>
    /\ UNCHANGED <<binding, dom, created, schedVars, pageVars, handlerVars, documentVars>>

\* The pass that the microtask of #queueTasks runs: #refresh.
Refresh ==
    /\ \E x \in { refresh(Binder, binding, dom, created,
                          [registered |-> pc = "built", tree |-> tree, memo |-> memo],
                          <<>>) } :
          /\ binding' = x.binding
          /\ dom' = x.dom
          /\ created' = x.created
          /\ indexMap' = x.indexMap
          /\ events' = x.events
          /\ memo' = x.memo
    /\ before' = [keys |-> binding.keys, objs |-> binding.objs]
    /\ refreshed' = TRUE
    /\ UNCHANGED <<exp, tree, state, functions, result, evlog, checks, pc, calls>>
    /\ UNCHANGED <<schedVars, pageVars, handlerVars, documentVars>>

NextEach == SetState \/ Refresh

SpecEach == InitEach /\ [][NextEach]_vars

\* SpecPipeline: the repeaters of every choice of modifiers, refreshed over
\* every source list.
InitPipeline == InitRepeater(EachBindings)

NextPipeline == Refresh

SpecPipeline == InitPipeline /\ [][NextPipeline]_vars

\* SpecKeys: a keyed repeater over items whose keys are a number, the text of
\* that number, and texts that differ in a character that is no letter or digit.
MaxItems == 3

KeyItems ==
    { ItemA,
      Obj(14, <<"k", "t", "d">>, << Num(1), Str("Gas"), Num(2) >>),
      Obj(15, <<"k", "t", "d">>, << Str("1"), Str("Gas"), Num(3) >>),
      Obj(16, <<"k", "t", "d">>, << Str("a.b"), Str("Ice"), Num(4) >>),
      Obj(17, <<"k", "t", "d">>, << Str("a_b"), Str("Ice"), Num(6) >>) }

KeyItemLists ==
    UNION { { l \in [1..n -> KeyItems] : \A i, j \in 1..n : l[i] = l[j] => i = j } :
              n \in 0..MaxItems }

InitKeys ==
    /\ binding = EachBinding(null, null, null, null, null)
    /\ state \in { merge(EmptyState, Obj(0, <<"items">>, << Arr(2, l) >>), 1) :
                      l \in KeyItemLists }
    /\ functions = {}
    /\ indexMap = <<>>
    /\ exp = ""
    /\ tree = NoTree
    /\ result = <<>>
    /\ evlog = <<>>
    /\ memo = NewChangeDetector
    /\ checks = <<>>
    /\ pc = "idle"
    /\ dom = <<>>
    /\ created = 0
    /\ events = <<>>
    /\ before = [keys |-> <<>>, objs |-> <<>>]
    /\ refreshed = FALSE
    /\ calls = 0
    /\ NoScheduler
    /\ NoPage
    /\ NoHandler

NextKeys == Refresh

SpecKeys == InitKeys /\ [][NextKeys]_vars

\* SpecSort: a keyed repeater with orderby over items whose sort values are
\* numbers, numeric strings and other strings, two of them equal.
SortItem(k, d) == Obj(0, <<"k", "t", "d">>, << Str(k), Str("Gas"), d >>)

SortItems ==
    { SortItem("a", Str("10")), SortItem("b", Str("2")), SortItem("c", Str("apple")),
      SortItem("d", Num(2)), SortItem("e", Str("Pear")), SortItem("f", Num(10)) }

SortLists ==
    UNION { { l \in [1..n -> SortItems] : \A i, j \in 1..n : l[i] = l[j] => i = j } :
              n \in 0..MaxItems }

InitSort ==
    /\ binding = EachBinding(null, "@x.d", null, null, null)
    /\ state \in { merge(EmptyState, Obj(0, <<"items">>, << Arr(2, l) >>), 1) : l \in SortLists }
    /\ functions = {}
    /\ indexMap = <<>>
    /\ exp = ""
    /\ tree = NoTree
    /\ result = <<>>
    /\ evlog = <<>>
    /\ memo = NewChangeDetector
    /\ checks = <<>>
    /\ pc = "idle"
    /\ dom = <<>>
    /\ created = 0
    /\ events = <<>>
    /\ before = [keys |-> <<>>, objs |-> <<>>]
    /\ refreshed = FALSE
    /\ calls = 0
    /\ NoScheduler
    /\ NoPage
    /\ NoHandler

NextSort == Refresh

SpecSort == InitSort /\ [][NextSort]_vars

\* SpecRefresh: a page with a repeater and an element with data-bind, both
\* registered, refreshed pass after pass over an unchanged state.
BindInputs == {"p", "p * 2", "q.r", "NaN", "undefinedPath.x * 2", "list", "one", "n"}

RefreshUpdates ==
    { Obj(0, <<"items", "lo", "hi">>, << Arr(2, l), Num(lo), Num(hi) >>) :
        l \in ItemLists, lo \in {1}, hi \in 1..MaxRange }

InitRefresh ==
    /\ binding \in {EachBinding(null, null, null, null, null), ForBinding(null)}
    /\ state \in { merge(ExprState, data, 1) : data \in RefreshUpdates }
    /\ functions = FunctionNames
    /\ indexMap = <<>>
    /\ exp \in BindInputs
    /\ tree = buildTree(exp)
    /\ result = <<>>
    /\ evlog = <<>>
    /\ memo = NewChangeDetector
    /\ checks = <<>>
    /\ pc = "built"
    /\ dom = <<>>
    /\ created = 0
    /\ events = <<>>
    /\ before = [keys |-> <<>>, objs |-> <<>>]
    /\ refreshed = FALSE
    /\ calls = 0
    /\ NoScheduler
    /\ NoPage
    /\ NoHandler

NextRefresh == Refresh

SpecRefresh == InitRefresh /\ [][NextRefresh]_vars

\* C5: a pass that follows a pass with no change of the state in between
\* writes nothing, adds, removes and moves no node, and dispatches no event.
C5_Idempotent ==
    [][(refreshed /\ refreshed') =>
          /\ events' = <<>>
          /\ dom' = dom
          /\ binding' = binding]_vars

-----------------------------------------------------------------------------
(* The scheduler: setState, scan and #mutateState queue one microtask, whose *)
(* callback runs #register and #refresh.  s is the scheduler's fields of the *)
(* binder: [needsRegister, needsRefresh, microtaskQueued, microtasks, task]. *)
(* task is "idle" when no callback runs, "register" and "refresh" when the   *)
(* callback is about to call #register and #refresh, "registering" and       *)
(* "refreshing" while the pass that they run is under way.                   *)

MaxCalls == 3

Scheduler ==
    [needsRegister |-> needsRegister, needsRefresh |-> needsRefresh,
     microtaskQueued |-> microtaskQueued, microtasks |-> microtasks, task |-> task]

\* A wrong callback: #needsRefresh stays set.
refreshIfNeededKeeping(s) ==
    IF s.needsRefresh THEN [s EXCEPT !.task = "refresh"] ELSE [s EXCEPT !.task = "idle"]

\* if (this.#needsRefresh) { this.#needsRefresh = false; this.#refresh(); }  (1316)
refreshIfNeeded(s) ==
    IF s.needsRefresh THEN [s EXCEPT !.needsRefresh = FALSE, !.task = "refresh"]
    ELSE [s EXCEPT !.task = "idle"]

\* The callback of the microtask (1312-1317), up to the pass it runs first.
microtask(s) ==
    LET registerIfNeeded(q) ==
            IF q.needsRegister THEN [q EXCEPT !.needsRegister = FALSE, !.task = "register"]
            ELSE refreshIfNeeded(q)
    IN registerIfNeeded([s EXCEPT !.microtaskQueued = FALSE, !.microtasks = @ - 1])

\* A wrong #queueTasks: a microtask for every call.
queueTasksEach(s) == [s EXCEPT !.microtaskQueued = TRUE, !.microtasks = @ + 1]

\* A wrong #queueTasks: the callback runs at once.
queueTasksNow(s) == microtask([s EXCEPT !.microtasks = @ + 1])

\* #queueTasks (1308-1319)
queueTasks(s) ==
    IF s.microtaskQueued THEN s
    ELSE [s EXCEPT !.microtaskQueued = TRUE, !.microtasks = @ + 1]

\* target[key] = value, for the object target at the end of path but one.
RECURSIVE SetPath(_, _, _, _)
SetPath(x, path, i, value) ==
    IF i = Len(path) THEN SetMember(x, path[i], value)
    ELSE SetMember(x, path[i], SetPath(Member(x, path[i]), path, i + 1, value))

\* #mutateState (268-278), for targets that are objects or are not there:
\* yields [state, mutated, thrown, error].
mutateState(st, imap, expression, value) ==
    LET Assign(path, target) ==
            IF IsThrown(target)
            THEN [state |-> st, mutated |-> FALSE, thrown |-> TRUE, error |-> target]
            ELSE IF target.t = "obj"
            THEN [state |-> SetPath(st, path, 1, value), mutated |-> TRUE,
                  thrown |-> FALSE, error |-> Undef]
            ELSE [state |-> st, mutated |-> FALSE, thrown |-> FALSE, error |-> Undef]
        Reduce(path) ==
            IF createPathThrows(path)
            THEN [state |-> st, mutated |-> FALSE, thrown |-> TRUE, error |-> ForbiddenPath]
            ELSE Assign(path, Walk(st, SubSeq(path, 1, Len(path) - 1), 1))
    IN Reduce(PathSegments(imap, trim(expression)))

\* The objects that setState is called with, and the paths and the value that
\* #mutateState is called with.
SchedUpdates ==
    { Obj(0, <<"p">>, << Num(1) >>), Obj(0, <<"p">>, << Num(2) >>),
      Obj(0, <<"q">>, << Obj(0, <<"r">>, << Str("t") >>) >>) }

MutatePaths == {"p", "q.r", "zz.y"}

\* The code of a synchronous turn runs: no callback does, and the microtask
\* queue is empty or holds what this turn has queued.
InTurn == task = "idle" /\ (microtasks = 0 \/ turn.sets + turn.scans > 0)

\* A listener runs, of an event that the pass under way has dispatched.
InPass == task \in {"registering", "refreshing"} /\ events # <<>>

\* A call has left the scheduler as s, having mutated the state sets times
\* and asked for a scan scans times: the call is counted with the turn, or
\* with the pass under way.
Called(s, sets, scans) ==
    /\ needsRegister' = s.needsRegister
    /\ needsRefresh' = s.needsRefresh
    /\ microtaskQueued' = s.microtaskQueued
    /\ microtasks' = s.microtasks
    /\ task' = s.task
    /\ calls' = calls + 1
    /\ turn' = IF task = "idle"
               THEN [sets |-> turn.sets + sets, scans |-> turn.scans + scans]
               ELSE turn
    /\ passes' = IF task = "idle" THEN passes
                 ELSE [passes EXCEPT ![Len(passes)].sets = @ + sets,
                                     ![Len(passes)].scans = @ + scans]
    /\ job' = job

\* binder.setState(data), in a turn or in a listener
CallSetState ==
    /\ calls < MaxCalls
    /\ InTurn \/ InPass
    /\ \E data \in SchedUpdates : state' = merge(state, data, 1)
    /\ Called(queueTasks([Scheduler EXCEPT !.needsRefresh = TRUE]), 1, 0)
    /\ UNCHANGED <<exp, tree, functions, indexMap, result, evlog, memo, checks, pc>>
    /\ UNCHANGED <<binding, dom, created, events, before, refreshed, pageVars, handlerVars, documentVars>>

\* binder.scan(), in a turn or in a listener  (1362)
CallScan ==
    /\ calls < MaxCalls
    /\ InTurn \/ InPass
    /\ Called(queueTasks([Scheduler EXCEPT !.needsRegister = TRUE]), 0, 1)
    /\ UNCHANGED <<exp, tree, state, functions, indexMap, result, evlog, memo, checks, pc>>
    /\ UNCHANGED <<binding, dom, created, events, before, refreshed, pageVars, handlerVars, documentVars>>

\* binder.#mutateState(exp, value), from the handler of a change or a click
MutateState ==
    /\ calls < MaxCalls
    /\ InTurn
    /\ \E expression \in MutatePaths :
       \E m \in { mutateState(state, indexMap, expression, Num(9)) } :
          /\ state' = m.state
          /\ IF m.mutated
             THEN Called(queueTasks([Scheduler EXCEPT !.needsRefresh = TRUE]), 1, 0)
             ELSE Called(Scheduler, 0, 0)
    /\ UNCHANGED <<exp, tree, functions, indexMap, result, evlog, memo, checks, pc>>
    /\ UNCHANGED <<binding, dom, created, events, before, refreshed, pageVars, handlerVars, documentVars>>

\* The callback of the microtask begins, when the turn has ended.
Microtask ==
    /\ task = "idle"
    /\ microtasks > 0
    /\ \E s \in { microtask(Scheduler) } :
          /\ needsRegister' = s.needsRegister
          /\ needsRefresh' = s.needsRefresh
          /\ microtaskQueued' = s.microtaskQueued
          /\ microtasks' = s.microtasks
          /\ task' = s.task
    /\ job' = [n |-> job.n + 1, sets |-> turn.sets, scans |-> turn.scans, state |-> state]
    /\ turn' = [sets |-> 0, scans |-> 0]
    /\ UNCHANGED <<exprVars, repeaterVars, passes, pageVars, handlerVars, documentVars>>

\* The pass of the callback: #register (1321-1324), which registers the
\* element with data-bind when it is not registered yet and then refreshes, or
\* #refresh (1326-1331).
Pass ==
    /\ task \in {"register", "refresh"}
    /\ \E t \in { IF task = "register" /\ pc = "new" THEN buildTree(exp) ELSE tree } :
       \E x \in { refresh(Binder, binding, dom, created,
                          [registered |-> task = "register" \/ pc = "built",
                           tree |-> t, memo |-> memo],
                          <<>>) } :
          /\ tree' = t
          /\ binding' = x.binding
          /\ dom' = x.dom
          /\ created' = x.created
          /\ indexMap' = x.indexMap
          /\ events' = x.events
          /\ memo' = x.memo
          /\ passes' = Append(passes, [by |-> task, job |-> job.n, state |-> state,
                                       at |-> calls, sets |-> 0, scans |-> 0,
                                       ended |-> FALSE, threw |-> x.thrown])
    /\ pc' = IF task = "register" THEN "built" ELSE pc
    /\ task' = IF task = "register" THEN "registering" ELSE "refreshing"
    /\ refreshed' = TRUE
    /\ UNCHANGED <<exp, state, functions, result, evlog, checks, before, calls, pageVars, handlerVars, documentVars>>
    /\ UNCHANGED <<needsRegister, needsRefresh, microtaskQueued, microtasks, turn, job>>

\* The pass has returned: the callback goes on behind #register, or ends; or
\* the pass has thrown, which nothing catches: the callback ends there.
EndPass ==
    /\ task \in {"registering", "refreshing"}
    /\ \E s \in { IF task = "registering" /\ ~passes[Len(passes)].threw
                  THEN refreshIfNeeded(Scheduler)
                  ELSE [Scheduler EXCEPT !.task = "idle"] } :
          /\ needsRegister' = s.needsRegister
          /\ needsRefresh' = s.needsRefresh
          /\ microtaskQueued' = s.microtaskQueued
          /\ microtasks' = s.microtasks
          /\ task' = s.task
    /\ passes' = [passes EXCEPT ![Len(passes)].ended = TRUE]
    /\ UNCHANGED <<exprVars, repeaterVars, turn, job, pageVars, handlerVars, documentVars>>

\* SpecSched: a page with one element with data-bind, not registered yet.
InitSched ==
    /\ exp \in {"p", "q.r"}
    /\ state = ExprState
    /\ functions = FunctionNames
    /\ indexMap = <<>>
    /\ InitScenario

NextSched == CallSetState \/ CallScan \/ MutateState \/ Microtask \/ Pass \/ EndPass

SpecSched == InitSched /\ [][NextSched]_vars

\* SpecThrow: the page of SpecSched, whose element may have an expression
\* that throws when it is evaluated (n is null).
InitThrow ==
    /\ exp \in {"p", "n.x"}
    /\ state = ExprState
    /\ functions = FunctionNames
    /\ indexMap = <<>>
    /\ InitScenario

SpecThrow == InitThrow /\ [][NextSched]_vars

\* SpecSchedLive: the microtask queue is served and a callback runs to its
\* end: the callback of a queued microtask begins once the turn has ended,
\* and the pass that it started is carried out and returns.
\* The weak fairness of Pass is written out, with the guard of Pass for
\* ENABLED <<Pass>>_vars (Pass changes task whenever its guard holds).
PassFair == []<>(task \notin {"register", "refresh"}) \/ []<><<Pass>>_vars

SpecSchedLive == SpecSched /\ WF_vars(Microtask) /\ PassFair /\ WF_vars(EndPass)

\* The last pass has dispatched an event of this type.
Dispatched(type) == \E i \in DOMAIN events : events[i].op = type

\* setState has stored one of its updates (#mutateState stores another value).
SetStateStored ==
    \/ RefLookup(state, <<"p">>, 1) \in {Num(1), Num(2)}
    \/ RefLookup(state, <<"q", "r">>, 1) = Str("t")

\* The passes that the callback that ran last has started.
PassesOfJob == { i \in DOMAIN passes : passes[i].job = job.n }

\* C13: the setState calls of one synchronous turn, however many, queue one
\* microtask; its callback starts #refresh once, and when the turn has called
\* nothing else that is the one pass it runs, over the state that all the
\* calls of the turn have been merged into.
C13_Coalesced ==
    /\ (task = "idle" /\ turn.sets >= 1) =>
          microtasks = 1 /\ microtaskQueued /\ needsRefresh
    /\ (task = "idle" /\ job.sets >= 1) =>
          /\ Cardinality({ i \in PassesOfJob : passes[i].by = "refresh" }) = 1
          /\ job.scans = 0 =>
                /\ Cardinality(PassesOfJob) = 1
                /\ \A i \in PassesOfJob : passes[i].state = job.state

\* After a scan and its pass, two setState calls of one turn have been
\* followed by one callback and one pass, which wrote the element.
C13_Witness ==
    /\ task = "idle"
    /\ job.n = 2 /\ job.sets = 2 /\ job.scans = 0
    /\ Len(passes) = 2
    /\ passes[2].by = "refresh" /\ passes[2].state = state
    /\ events # <<>>

\* No scan is asked for when the i-th pass returns: no listener has called
\* scan during it, nor during the pass of #register before it in the same
\* callback.
NoScanPending(i) ==
    /\ passes[i].scans = 0
    /\ (i > 1 /\ passes[i].by = "refresh" /\ passes[i - 1].job = passes[i].job) =>
           passes[i - 1].scans = 0

\* C14: a pass begins only when the passes before it have returned; state
\* mutations made while a pass runs are followed by a further pass once that
\* pass has returned, and (no scan being asked for) by one only: the pass
\* after the further one, if any, follows a call made later.
C14_OneFollowUp ==
    /\ \A i \in 1..(Len(passes) - 1) : passes[i].ended
    /\ (task = "idle" /\ microtasks = 0 /\ passes # <<>>) =>
          passes[Len(passes)].sets = 0
    /\ \A i \in DOMAIN passes :
          (passes[i].sets >= 1 /\ NoScanPending(i) /\ i + 2 <= Len(passes)) =>
              passes[i + 2].at > passes[i + 1].at

\* Two setState calls of listeners during one pass have been followed by one
\* pass, and nothing is left to run.
C14_Witness ==
    /\ task = "idle" /\ microtasks = 0
    /\ Len(passes) = 2
    /\ passes[1].sets = 2
    /\ passes[2].ended

\* C15: a call of setState, scan or #mutateState changes the state, the
\* flags #needsRegister and #needsRefresh and the queued microtask, and
\* nothing else: no callback begins, no pass runs, no tree is built or
\* evaluated, no node is written and no event is dispatched.
C15_NoSynchronousRender ==
    [][calls' # calls =>
          /\ task' = task /\ job' = job /\ Len(passes') = Len(passes)
          /\ UNCHANGED <<binding, dom, created, events, before, refreshed>>
          /\ UNCHANGED <<exp, tree, functions, indexMap, result, evlog, memo, checks, pc>>
          /\ UNCHANGED <<pageVars, handlerVars, documentVars>>]_vars

\* A turn has called setState, scan and #mutateState, and nothing has run.
C15_Witness ==
    /\ task = "idle"
    /\ turn = [sets |-> 2, scans |-> 1]
    /\ Member(state, "p") = Num(9)
    /\ Member(Member(state, "q"), "r") = Str("t")
    /\ microtasks = 1
    /\ passes = <<>>

-----------------------------------------------------------------------------
(* A pass over a page: the directives' bindings and the order of #refresh.   *)
(* page holds the bindings in the order in which the directives' register    *)
(* pushed them (document order); a binding is [kind, depth, exp, id]: its    *)
(* directive, the depth of its element (what #getDomDepth yields), the       *)
(* expression that its refresh evaluates first, and its element.  A repeater *)
(* stands for the evaluation of that expression only; what it does to its    *)
(* items is eachRefresh and forRefresh.                                      *)

MaxBindings == 3

DirectiveOrderBindFirst ==
    <<"bind", "if", "each", "for", "interpolation", "attribute", "class", "style">>

\* The directives in the order of the array of #refresh (1328).
DirectiveOrder ==
    <<"if", "each", "for", "interpolation", "bind", "attribute", "class", "style">>

\* this.#bindings of one directive: what its register pushed, in that order.
bindingsOf(pg, kind) == SelectSeq(pg, LAMBDA x : x.kind = kind)

\* .sort((a, b) => b.depth - a.depth) (945): a stable sort, the deepest first.
RECURSIVE insertByDepth(_, _, _)
insertByDepth(sorted, x, k) ==
    IF k > Len(sorted) THEN Append(sorted, x)
    ELSE IF x.depth - sorted[k].depth > 0
         THEN SubSeq(sorted, 1, k - 1) \o <<x>> \o SubSeq(sorted, k, Len(sorted))
         ELSE insertByDepth(sorted, x, k + 1)

RECURSIVE sortByDepth(_, _, _)
sortByDepth(bs, k, sorted) ==
    IF k > Len(bs) THEN sorted
    ELSE sortByDepth(bs, k + 1, insertByDepth(sorted, bs[k], 1))

\* The bindings that one directive's refresh walks, in its order: the
\* data-bind directive sorts them (945), the others take them as pushed.
walkOf(pg, kind) ==
    IF kind = "bind" THEN sortByDepth(bindingsOf(pg, kind), 1, <<>>)
    ELSE bindingsOf(pg, kind)

\* The bindings in the order in which #refresh (1328) reaches them.
RECURSIVE walk(_, _, _)
walk(pg, order, k) ==
    IF k > Len(order) THEN <<>>
    ELSE walkOf(pg, order[k]) \o walk(pg, order, k + 1)

\* One binding's update: its element, its directive, its depth and the value
\* that its expression yielded (the error, for an evaluation that threw).
Update(x, value) == [id |-> x.id, kind |-> x.kind, depth |-> x.depth, value |-> value]

\* The forEach loops of #refresh and of the directives' refresh over the
\* bindings bs from the k-th: each binding's expression is evaluated and,
\* the first time (ChangeDetector.check of a first value is true), its
\* element is updated.  Nothing catches what evaluate throws, so that an
\* error ends the loops at that binding.
RECURSIVE refreshPage(_, _, _, _)
refreshPage(b, bs, k, acc) ==
    LET Updated(value) ==
            IF IsThrown(value) THEN Append(acc, Update(bs[k], value))
            ELSE refreshPage(b, bs, k + 1, Append(acc, Update(bs[k], value)))
    IN IF k > Len(bs) THEN acc
       ELSE Updated(evaluate(b, bs[k].exp).v)

\* The bindings that an element of a page can hold: one of each directive
\* on the path p, a data-bind at two depths, and three on a path that
\* #createPath refuses.
PageBindings ==
    [kind : {"if", "each", "for", "interpolation", "attribute", "class", "style"},
     depth : {1}, exp : {"p"}]
    \cup [kind : {"bind"}, depth : {1, 2}, exp : {"p"}]
    \cup [kind : {"if", "bind", "style"}, depth : {1}, exp : {"constructor.x"}]

\* A directive's register pushes the binding of an element that it found
\* (520, 585, 734, 844, 935, 1024, 1082, 1129); the element is the next one
\* of the document.
RegisterBinding ==
    /\ updated = <<>>
    /\ Len(page) < MaxBindings
    /\ \E x \in PageBindings :
          page' = Append(page, [kind |-> x.kind, depth |-> x.depth, exp |-> x.exp,
                                id |-> Len(page) + 1])
    /\ UNCHANGED <<exprVars, repeaterVars, schedVars, updated, handlerVars, documentVars>>

\* #refresh (1326-1328) over the registered bindings.
RefreshPage ==
    /\ updated = <<>>
    /\ page # <<>>
    /\ \E u \in { refreshPage(Binder, walk(page, DirectiveOrder, 1), 1, <<>>) } :
          updated' = u
    /\ UNCHANGED <<exprVars, repeaterVars, schedVars, page, handlerVars, documentVars>>

InitPage ==
    /\ exp = "p"
    /\ state = ExprState
    /\ functions = FunctionNames
    /\ indexMap = <<>>
    /\ InitScenario

NextPage == RegisterBinding \/ RefreshPage

SpecPage == InitPage /\ [][NextPage]_vars

-----------------------------------------------------------------------------
(* The interpolations of a text node.  exp is the text of the node as the    *)
(* markup has it (on one line); binding is what register pushed for it:      *)
(* [kind, type, expressions, text, obj], obj being the node's textContent.   *)

\* The last position from i on at which "}}" stands in s; 0 when there is none.
RECURSIVE lastClose(_, _)
lastClose(s, i) ==
    IF i + 1 > Len(s) THEN 0
    ELSE (LET Later(k) == IF k # 0 THEN k ELSE IF Slice(s, i, i + 1) = "}}" THEN i ELSE 0
          IN Later(lastClose(s, i + 1)))

\* "}}" at the first position from i on at which it stands in s.
firstClose(s, i) == IndexFrom(s, "}}", i)

\* text.match(/\{\{(.+)\}\}/g) (828, 838) from position i on of a text of
\* one line: a match begins at the first "{{" that has a "}}" behind at least
\* one character, and the greedy .+ carries it to the last "}}" of the line.
RECURSIVE matchInterpolations(_, _)
matchInterpolations(s, i) ==
    LET Matched(e) == <<[from |-> i, to |-> e + 1]>> \o matchInterpolations(s, e + 2)
    IN IF i + 1 > Len(s) THEN <<>>
       ELSE IF Slice(s, i, i + 1) = "{{" /\ lastClose(s, i + 3) # 0
            THEN Matched(lastClose(s, i + 3))
            ELSE matchInterpolations(s, i + 1)

\* "{{aa}}" >> "aa"  (834)
trimExpression(x) ==
    LET Opened(y) == IF Slice(y, 1, 2) = "{{" THEN Slice(y, 3, Len(y)) ELSE y
        Closed(y) == IF Len(y) >= 2 /\ Slice(y, Len(y) - 1, Len(y)) = "}}"
                     THEN Slice(y, 1, Len(y) - 2) ELSE y
    IN trim(Closed(Opened(x)))

\* "aa {{bb}} cc {{dd}} ee" >> "aa {0} cc {1} ee"  (831): the k-th match on
\* becomes "{k-1}".
RECURSIVE prepareString(_, _, _, _)
prepareString(input, m, k, from) ==
    IF k > Len(m) THEN Slice(input, from, Len(input))
    ELSE Slice(input, from, m[k].from - 1) \o "{" \o ToString(k - 1) \o "}"
         \o prepareString(input, m, k + 1, m[k].to + 1)

\* What register pushes for a text node (840-846).
textBinding(content) ==
    LET Pushed(m) ==
            [kind |-> "interpolation", type |-> "text",
             expressions |-> [k \in DOMAIN m |->
                                 trimExpression(Slice(content, m[k].from, m[k].to))],
             text |-> prepareString(trim(content), matchInterpolations(trim(content), 1), 1, 1),
             obj |-> ""]
    IN Pushed(matchInterpolations(content, 1))

\* What String.prototype.replace makes of the replacement text by: "$$" is a
\* "$", "$&" the text that matched.
RECURSIVE expandReplacement(_, _, _)
expandReplacement(by, matched, i) ==
    IF i > Len(by) THEN ""
    ELSE IF Slice(by, i, i + 1) = "$$" THEN "$" \o expandReplacement(by, matched, i + 2)
    ELSE IF Slice(by, i, i + 1) = "$&" THEN matched \o expandReplacement(by, matched, i + 2)
    ELSE Char(by, i) \o expandReplacement(by, matched, i + 1)

\* binding.expressions.reduce((text, expression, index) =>
\*     text.replace("{"+index+"}", binder.#evaluate(expression)), binding.text)
\* (890) from the k-th expression on: the value is made a string and used as
\* the replacement of the first "{index}"; an evaluation that throws ends it.
RECURSIVE interpolate(_, _, _, _)
interpolate(b, expressions, k, text) ==
    LET Replaced(value) ==
            IF IsThrown(value) THEN value
            ELSE interpolate(b, expressions, k + 1,
                     ReplaceFirst(text, "{" \o ToString(k - 1) \o "}",
                         expandReplacement(ToStr(value), "{" \o ToString(k - 1) \o "}", 1)))
    IN IF k > Len(expressions) THEN Str(text)
       ELSE Replaced(evaluate(b, expressions[k]).v)

\* The texts of the node: one, two and three interpolations, with and without
\* text around and between them.
InterpTexts ==
    {"{{p}}", "Hi {{q.r}}!", "{{ p + 1 }} items", "{{p}} {{q.r}} in cart.",
     "{{p}}{{q.r}}", "{{q.r}} and {{p}}", "{{p}}, {{q.r}}, {{p * 2}}"}

\* The states of the page: the values at p and q.r differ from one to another.
InterpStates ==
    {ExprState,
     Obj(1, <<"p", "q", "name">>, << Num(12), Obj(2, <<"r">>, <<Str("s")>>), Str("x") >>),
     Obj(1, <<"p", "q">>, << Num(0), Obj(2, <<"r">>, <<Str("tea")>>) >>),
     Obj(1, <<"q">>, << Obj(2, <<"r">>, <<Str("")>>) >>)}

\* register of the interpolation directive finds the text node, pushes its
\* binding and empties the node (838-848).
RegisterText ==
    /\ binding.kind = "none"
    /\ \E x \in { textBinding(exp) } : binding' = x
    /\ UNCHANGED <<exprVars, dom, created, events, before, refreshed, calls>>
    /\ UNCHANGED <<schedVars, pageVars, handlerVars, documentVars>>

\* refresh of the interpolation directive (888-899) for the text node.
RefreshText ==
    /\ binding.kind = "interpolation"
    /\ ~refreshed
    /\ \E x \in { interpolate(Binder, binding.expressions, 1, binding.text) } :
          IF IsThrown(x) THEN UNCHANGED <<binding, memo, events>>
          ELSE /\ memo' = checkMemo(memo, x)
               /\ IF checkChanged(memo, x)
                  THEN /\ binding' = [binding EXCEPT !.obj = x.s]
                       /\ events' = Append(events, [op |-> "bind", value |-> x.s])
                  ELSE UNCHANGED <<binding, events>>
    /\ refreshed' = TRUE
    /\ UNCHANGED <<exp, tree, state, functions, indexMap, result, evlog, checks, pc>>
    /\ UNCHANGED <<dom, created, before, calls, schedVars, pageVars, handlerVars, documentVars>>

\* binder.setState(data) with the members of another of the states.
SetStateText ==
    /\ calls < MaxCalls
    /\ calls' = calls + 1
    /\ \E st \in InterpStates \ {state} : state' = st
    /\ refreshed' = FALSE
    /\ UNCHANGED <<exp, tree, functions, indexMap, result, evlog, memo, checks, pc>>
    /\ UNCHANGED <<binding, dom, created, events, before, schedVars, pageVars, handlerVars, documentVars>>

InitText ==
    /\ exp \in InterpTexts
    /\ state \in InterpStates
    /\ functions = FunctionNames
    /\ indexMap = <<>>
    /\ InitScenario

NextText == RegisterText \/ RefreshText \/ SetStateText

SpecText == InitText /\ [][NextText]_vars

\* The text as the markup means it, from position i on: each "{{...}}", up
\* to the "}}" that closes it, gives way to the value of its own expression,
\* the text around it stays.
RECURSIVE RefRender(_, _, _)
RefRender(b, s, i) ==
    LET Open(o) ==
            IF o = 0 \/ firstClose(s, o + 2) = 0 THEN Slice(s, i, Len(s))
            ELSE Slice(s, i, o - 1)
                 \o ToStr(evaluate(b, trim(Slice(s, o + 2, firstClose(s, o + 2) - 1))).v)
                 \o RefRender(b, s, firstClose(s, o + 2) + 2)
    IN IF i > Len(s) THEN "" ELSE Open(IndexFrom(s, "{{", i))

-----------------------------------------------------------------------------
(* The listeners of data-onchange and data-onclick.  handler is the listener *)
(* that register added to an element: [type, target, expression], with type  *)
(* what #typeOf yields for the element ("click" for data-onclick) and target *)
(* and expression the two groups of the match of the mapping.               *)

\* JSON.stringify of a string without control characters: #toSafeString
RECURSIVE escapeJSON(_, _)
escapeJSON(x, i) ==
    IF i > Len(x) THEN ""
    ELSE (IF Char(x, i) \in {"\"", "\\"} THEN "\\" \o Char(x, i) ELSE Char(x, i))
         \o escapeJSON(x, i + 1)

toSafeString(x) == "\"" \o escapeJSON(x, 1) \o "\""

\* expression.replace(this.#RGX_VARIABLE_VALUE, value)  (1201)
replaceValue(expression, value) ==
    ReplaceAlias(expression, "value", expandReplacement(value, "@value", 1), 1)

\* The text that the listener hands to applyChange (1207-1221): the checked
\* state of a checkbox, the value of another control as #toSafeString makes it.
changeValue(type, typed) ==
    IF type = "checkbox" THEN (IF typed.n = 1 THEN "true" ELSE "false")
    ELSE toSafeString(typed.s)

\* applyChange (1171-1174, 1200-1203): the expression is evaluated and the
\* state is mutated at the target, unless the evaluation threw.
applyChange(b, target, expression) ==
    LET Applied(evaluated) ==
            IF IsThrown(evaluated)
            THEN [state |-> b.state, mutated |-> FALSE, thrown |-> TRUE,
                  error |-> evaluated, value |-> evaluated]
            ELSE [ value |-> evaluated ] @@ mutateState(b.state, b.indexMap, target, evaluated)
    IN Applied(evaluate(b, expression).v)

\* A call of the listener has left the state and the scheduler as m says.
Handled(typed, m) ==
    /\ state' = m.state
    /\ handled' = Append(handled, [typed |-> typed, value |-> m.value, error |-> m.error,
                                   mutated |-> m.mutated, before |-> state])
    /\ IF m.mutated
       THEN Called(queueTasks([Scheduler EXCEPT !.needsRefresh = TRUE]), 1, 0)
       ELSE Called(Scheduler, 0, 0)
    /\ UNCHANGED <<exp, tree, functions, indexMap, result, evlog, memo, checks, pc>>
    /\ UNCHANGED <<binding, dom, created, events, before, refreshed, pageVars, handler, refs, documentVars>>

\* The values that a user gives to a control: texts, and the checked state.
TypedTexts == {"", "abc", "7", "a b", "it's", "true", "a\"b", "a\\b", "$&", "@value"}

TypedValues(type) ==
    IF type = "checkbox" THEN {Bool(TRUE), Bool(FALSE)}
    ELSE { Str(x) : x \in TypedTexts }

\* The listener of the input or change event of a control with data-onchange
Change ==
    /\ handler.type \in {"checkbox", "select", "input", "textarea"}
    /\ calls < MaxCalls
    /\ InTurn
    /\ \E typed \in TypedValues(handler.type) :
       \E m \in { applyChange(Binder, handler.target,
                              replaceValue(handler.expression,
                                           changeValue(handler.type, typed))) } :
          Handled(typed, m)

\* The listener of the click event of an element with data-onclick
Click ==
    /\ handler.type = "click"
    /\ calls < MaxCalls
    /\ InTurn
    /\ \E m \in { applyChange(Binder, handler.target, handler.expression) } :
          Handled(Undef, m)

\* SpecForbidden: paths with and without a forbidden segment, read by an
\* expression and written by the listener of a data-onclick.

\* A state with a member that holds the name of a forbidden segment.
ForbidState ==
    Obj(1, <<"p", "q", "name", "key", "list">>,
        << Num(5), Obj(2, <<"r">>, <<Str("s")>>), Str("constructor"), Str("r"),
           Arr(3, << Obj(4, <<"a">>, <<Num(1)>>) >>) >>)

ForbiddenReads ==
    {"constructor", "q.constructor", "__proto__.x", "q.prototype.r", "list[0].constructor",
     "q[name]", "q[name].x", "1 + q.constructor.name"}

\* A quoted text between brackets is no segment: #buildTree leaves the mask
\* of the text in the leaf (325-327), which resolves to the segment undefined.
QuotedReads == {"q['__proto__']", "q['r']"}

AllowedReads == {"p", "q.r", "q[key]", "name", "list[0].a"}

ForbiddenTargets ==
    {"constructor", "constructor.x", "q.constructor", "q.constructor.x", "q.prototype",
     "__proto__.polluted", "list[0].__proto__.a"}

\* #mutateState writes no inner expression back: "q[name]" is one segment.
AllowedTargets == {"p", "q.r", "q.z", "list[0].a", "q[name]"}

InitForbidden ==
    /\ exp \in ForbiddenReads \cup QuotedReads \cup AllowedReads
    /\ state = ForbidState
    /\ functions = FunctionNames
    /\ indexMap = <<>>
    /\ \E h \in [type : {"click"}, target : ForbiddenTargets \cup AllowedTargets,
                 expression : {"p + 1"}] : InitListener(h)

NextForbidden == Compile \/ Evaluate \/ Check \/ Click

SpecForbidden == InitForbidden /\ [][NextForbidden]_vars

-----------------------------------------------------------------------------
(* The code of the page and the objects it shares with the binder.  An       *)
(* object or array is one instance with an identity (id), and a write to an  *)
(* instance is seen wherever the instance is: refs is the set of the ids of  *)
(* the instances that the code of the page has a reference to.               *)

\* The ids of the instances in a value.
RECURSIVE instances(_)
instances(x) ==
    IF x.t \in {"arr", "obj"}
    THEN {x.id} \cup UNION { instances(x.items[i]) : i \in DOMAIN x.items }
    ELSE {}

\* window.structuredClone: new instances, with ids that no other has.
CloneBase == 100

RECURSIVE structuredClone(_)
structuredClone(x) ==
    IF x.t \in {"arr", "obj"}
    THEN [x EXCEPT !.id = CloneBase + x.id,
                   !.items = [i \in DOMAIN x.items |-> structuredClone(x.items[i])]]
    ELSE x

structuredCloneSame(x) == x

\* The mark that the code of the page leaves in an instance it writes to:
\* array.push("written"), object.written = "written".
Written == Str("written")

writeTo(x) ==
    IF x.t = "arr"
    THEN (IF \E i \in DOMAIN x.items : x.items[i] = Written THEN x
          ELSE [x EXCEPT !.items = Append(@, Written)])
    ELSE SetMember(x, "written", Written)

\* The value x after a write to the instance id, wherever it is in x.
RECURSIVE writeThrough(_, _)
writeThrough(x, id) ==
    IF x.t \in {"arr", "obj"}
    THEN (LET Inner(y) == IF y.id = id THEN writeTo(y) ELSE y
          IN Inner([x EXCEPT !.items = [i \in DOMAIN x.items |-> writeThrough(x.items[i], id)]]))
    ELSE x

\* The mark is in x.
RECURSIVE hasWritten(_)
hasWritten(x) ==
    \/ x = Written
    \/ /\ x.t \in {"arr", "obj"}
       /\ \/ \E i \in DOMAIN x.items : hasWritten(x.items[i])
          \/ \E i \in DOMAIN x.keys : x.keys[i] = "written"

\* The objects that the code of the page makes and hands to setState.
HeldUpdates ==
    { Obj(21, <<"p">>, << Num(1) >>),
      Obj(22, <<"q">>, << Obj(23, <<"r">>, << Str("t") >>) >>),
      Obj(24, <<"list">>, << Arr(25, << Num(3) >>) >>),
      Obj(30, <<"p", "n", "flag">>, << Undef, Num(2), Undef >>),
      Obj(26, <<"q">>, << Obj(27, <<"rows">>, << Arr(28, << Obj(29, <<"a">>, << Num(1) >>) >>) >>) >>) }

\* binder.setState(data) with an object that the code keeps a reference to
SetStateHeld ==
    /\ calls < MaxCalls
    /\ InTurn
    /\ \E data \in HeldUpdates :
          /\ state' = merge(state, data, 1)
          /\ refs' = refs \cup instances(data)
    /\ Called(queueTasks([Scheduler EXCEPT !.needsRefresh = TRUE]), 1, 0)
    /\ UNCHANGED <<exp, tree, functions, indexMap, result, evlog, memo, checks, pc>>
    /\ UNCHANGED <<binding, dom, created, events, before, refreshed, pageVars, handler, handled, documentVars>>

\* binder.getState(), of which the code keeps the result  (185)
GetState ==
    /\ InTurn
    /\ refs' = refs \cup instances(structuredClone(state))
    /\ UNCHANGED <<exprVars, repeaterVars, schedVars, pageVars, handler, handled, documentVars>>

\* The code of the page writes to an instance that it holds.
WriteHeld ==
    /\ InTurn
    /\ \E id \in refs : state' = writeThrough(state, id)
    /\ UNCHANGED <<exp, tree, functions, indexMap, result, evlog, memo, checks, pc>>
    /\ UNCHANGED <<repeaterVars, schedVars, pageVars, handlerVars, documentVars>>

\* SpecHeld: the code of the page calls setState and getState, writes to what
\* it holds, and an expression is evaluated.
InitHeld ==
    /\ exp \in {"list", "q.r", "q.rows[0].a", "p"}
    /\ state = ExprState
    /\ functions = FunctionNames
    /\ indexMap = <<>>
    /\ InitScenario

NextHeld == SetStateHeld \/ GetState \/ WriteHeld \/ Compile \/ Evaluate \/ Check

SpecHeld == InitHeld /\ [][NextHeld]_vars

\* SpecChange: a control with data-onchange="p = @value" or "q.r = @value",
\* which the user gives values to; the passes that follow run.
InitChange ==
    /\ exp = "p"
    /\ state = ExprState
    /\ functions = FunctionNames
    /\ indexMap = <<>>
    /\ \E h \in [type : {"checkbox", "input", "select", "textarea"},
                 target : {"p", "q.r"}, expression : {"@value"}] : InitListener(h)

NextChange == Change \/ Microtask \/ Pass \/ EndPass

SpecChange == InitChange /\ [][NextChange]_vars

-----------------------------------------------------------------------------
(* The repeaters: what a pass did, read from before, binding and events     *)

PositionIn(keys, key) == CHOOSE i \in DOMAIN keys : keys[i] = key

Present(keys, key) == \E i \in DOMAIN keys : keys[i] = key

\* The keys that the pass found in the record and left in it.
Surviving == { before.keys[i] : i \in DOMAIN before.keys } \cap
             { binding.keys[i] : i \in DOMAIN binding.keys }

NodeBefore(key) == before.objs[PositionIn(before.keys, key)]
NodeNow(key) == binding.objs[PositionIn(binding.keys, key)]

\* The events of one kind that the pass logged for a key.
EventsOf(op, key) == { i \in DOMAIN events : events[i].op = op /\ events[i].key = key }

KeyedPass == refreshed /\ binding.kind = "each"

\* C6: a key that is in the previous key list and in the new one keeps its
\* node, wherever it is in the two lists: the node is neither removed nor
\* made anew, and it is in the document.
C6_NodeIdentity ==
    KeyedPass =>
        \A key \in Surviving :
            /\ NodeNow(key) = NodeBefore(key)
            /\ \E i \in DOMAIN dom : dom[i] = NodeBefore(key)
            /\ \A i \in DOMAIN events :
                  events[i].obj = NodeBefore(key) => events[i].op = "move"

\* A pass has kept the nodes of two keys whose order it reversed.
C6_Witness ==
    /\ KeyedPass
    /\ before.keys = << Str("0_a"), Str("0_b") >>
    /\ binding.keys = << Str("0_b"), Str("0_a") >>
    /\ binding.objs = << before.objs[2], before.objs[1] >>

ExampleABC == << Str("0_a"), Str("0_b"), Str("0_c") >>
ExampleACB == << Str("0_a"), Str("0_c"), Str("0_b") >>

\* C7 as stated: from [a,b,c] to [a,c,b] the pass adds and removes nothing
\* and moves one node, the node of b.
C7_MovesB ==
    (KeyedPass /\ before.keys = ExampleABC /\ binding.keys = ExampleACB) =>
        events = << Event("move", Str("0_b"), before.objs[2]) >>

\* C7, amended: from [a,b,c] to [a,c,b] the pass adds and removes nothing and
\* moves one node, the node of c, to behind the node of a; the nodes of a and
\* b are not moved.
C7_MovesC ==
    (KeyedPass /\ before.keys = ExampleABC /\ binding.keys = ExampleACB) =>
        /\ events = << Event("move", Str("0_c"), before.objs[3]) >>
        /\ dom = << before.objs[1], before.objs[3], before.objs[2] >>
        /\ binding.objs = dom

C7_Witness ==
    /\ KeyedPass
    /\ before.keys = ExampleABC
    /\ binding.keys = ExampleACB
    /\ Len(events) = 1

\* The subsets of the surviving keys that are in the same order in the
\* previous list and in the new one.
Stable ==
    { S \in SUBSET Surviving :
        \A x, y \in S :
            PositionIn(before.keys, x) < PositionIn(before.keys, y)
                => PositionIn(binding.keys, x) < PositionIn(binding.keys, y) }

\* The smallest number of moves that bring the surviving nodes from the
\* previous order into the new one: all but a largest stable subset move.
MinimalMoves ==
    Cardinality(Surviving)
        - (CHOOSE n \in 0..Cardinality(Surviving) :
              /\ \E S \in Stable : Cardinality(S) = n
              /\ \A S \in Stable : Cardinality(S) <= n)

Moves == { i \in DOMAIN events : events[i].op = "move" }

Overtaking ==
    { x \in Surviving :
        \E y \in Surviving :
            /\ PositionIn(before.keys, y) < PositionIn(before.keys, x)
            /\ PositionIn(binding.keys, y) > PositionIn(binding.keys, x) }

KeysOfPass ==
    { before.keys[i] : i \in DOMAIN before.keys }
        \cup { binding.keys[i] : i \in DOMAIN binding.keys }
        \cup { events[i].key : i \in DOMAIN events }

InDocument(obj) == \E i \in DOMAIN dom : dom[i] = obj

\* C9: in every pass of a repeater, keyed or ranged, a key that enters the
\* target gets a node made in that pass and one 'add' event; a key that
\* leaves it has its node detached and gets one 'remove' event; a key that
\* stays keeps its node and gets no event; and no other key gets an event.
C9_Transitions ==
    refreshed =>
        \A key \in KeysOfPass :
            LET was == Present(before.keys, key)
                is == Present(binding.keys, key)
                adds == EventsOf("add", key)
                removes == EventsOf("remove", key)
            IN /\ (~was /\ is) =>
                    /\ Cardinality(adds) = 1 /\ removes = {}
                    /\ \A i \in adds : events[i].obj = NodeNow(key)
                    /\ \A i \in DOMAIN before.objs : before.objs[i] < NodeNow(key)
                    /\ InDocument(NodeNow(key))
               /\ (was /\ ~is) =>
                    /\ Cardinality(removes) = 1 /\ adds = {}
                    /\ \A i \in removes : events[i].obj = NodeBefore(key)
                    /\ ~InDocument(NodeBefore(key))
               /\ (was /\ is) =>
                    /\ adds = {} /\ removes = {}
                    /\ NodeNow(key) = NodeBefore(key)
                    /\ InDocument(NodeNow(key))
               /\ (~was /\ ~is) => FALSE

\* A pass of a keyed repeater has added one key, removed one and kept one, and
\* a pass of a range repeater has added one key and removed one.
C9_Witness ==
    /\ refreshed
    /\ \/ /\ before.keys = << Str("0_a"), Str("0_b") >>
          /\ binding.keys = << Str("0_c"), Str("0_a") >>
          /\ Len(events) = 3
       \/ /\ before.keys = << Num(1), Num(2) >>
          /\ binding.keys = << Num(2), Num(3) >>
          /\ Len(events) = 2

-----------------------------------------------------------------------------
(* The target list of a keyed repeater, stage by stage                       *)

Field(item, name) == item.items[CHOOSE i \in DOMAIN item.keys : item.keys[i] = name]

\* The source list of the state.
Source == state.items[CHOOSE i \in DOMAIN state.keys : state.keys[i] = "items"].items

\* filter: the items whose t is "Gas", in their order.
RefWhere(l) == SelectSeq(l, LAMBDA item : Field(item, "t") = Str("Gas"))

\* sort: the same items by ascending d, items of equal d in their order.
RefOrderBy(l) ==
    CHOOSE m \in [1..Len(l) -> { l[i] : i \in DOMAIN l }] :
        /\ \A i \in DOMAIN l : \E j \in DOMAIN m : m[j] = l[i]
        /\ \A i, j \in DOMAIN m :
              i < j => \/ Field(m[i], "d").n < Field(m[j], "d").n
                       \/ /\ Field(m[i], "d").n = Field(m[j], "d").n
                          /\ PositionIn(l, m[i]) < PositionIn(l, m[j])

\* distinct: of the items of one t, the one that comes first.
RefDistinct(l) ==
    LET first == { i \in DOMAIN l : \A j \in 1..(i - 1) : Field(l[j], "t") # Field(l[i], "t") }
    IN SelectSeq(l, LAMBDA item : PositionIn(l, item) \in first)

\* skip and limit, of one item each.
RefSkip(l) == IF l = <<>> THEN l ELSE Tail(l)
RefLimit(l) == IF l = <<>> THEN l ELSE << Head(l) >>

\* filter, then sort, then distinct, then skip, then limit: each stage that
\* the repeater has an expression for, on what the stage before it left.
RefTarget(r, l) ==
    LET filtered == IF r.where = null THEN l ELSE RefWhere(l)
        sorted == IF r.orderby = null THEN filtered ELSE RefOrderBy(filtered)
        distinct == IF r.distinct = null THEN sorted ELSE RefDistinct(sorted)
        skipped == IF r.skip = null THEN distinct ELSE RefSkip(distinct)
    IN IF r.limit = null THEN skipped ELSE RefLimit(skipped)

RefKey(item) == Str("0_" \o Field(item, "k").s)

-----------------------------------------------------------------------------
(* The distinct stage                                                        *)

\* The list that the distinct stage works on: the source filtered and sorted.
RefBeforeDistinct(r, l) ==
    LET filtered == IF r.where = null THEN l ELSE RefWhere(l)
    IN IF r.orderby = null THEN filtered ELSE RefOrderBy(filtered)

\* The items of the source that a pass with distinct but without skip and
\* limit can keep, in the order of the source, and whether it kept one.
Candidates == IF binding.where = null THEN Source ELSE RefWhere(Source)

Kept(item) == Present(binding.keys, RefKey(item))

DistinctPass ==
    /\ KeyedPass
    /\ binding.distinct # null
    /\ binding.skip = null
    /\ binding.limit = null

\* The items kept of one value of the distinct expression.
KeptOf(value) ==
    { i \in DOMAIN Candidates : Kept(Candidates[i]) /\ Field(Candidates[i], "t") = value }

\* C11 as stated: of each value of the distinct expression the repeater
\* keeps one item, the last of that value in the order of the source.
C11_KeepsLast ==
    DistinctPass =>
        \A i \in DOMAIN Candidates :
            /\ Cardinality(KeptOf(Field(Candidates[i], "t"))) = 1
            /\ Kept(Candidates[i]) <=>
                  \A j \in DOMAIN Candidates :
                      j > i => Field(Candidates[j], "t") # Field(Candidates[i], "t")

\* C11, amended: of each value of the distinct expression the repeater keeps
\* one item, the first of that value in the list that the stage works on: the
\* source filtered, in the order of the sort when there is one and in the
\* order of the source when there is none.
C11_KeepsFirst ==
    DistinctPass =>
        \A i \in DOMAIN RefBeforeDistinct(binding, Source) :
            /\ Cardinality(KeptOf(Field(RefBeforeDistinct(binding, Source)[i], "t"))) = 1
            /\ Kept(RefBeforeDistinct(binding, Source)[i]) <=>
                  \A j \in 1..(i - 1) :
                      Field(RefBeforeDistinct(binding, Source)[j], "t")
                          # Field(RefBeforeDistinct(binding, Source)[i], "t")

\* A pass with distinct over two items of one value and one of another, in
\* the order of the source, has kept the first of the two.
C11_Witness ==
    /\ DistinctPass
    /\ binding.where = null /\ binding.orderby = null
    /\ Source = << ItemA, ItemB, ItemC >>
    /\ binding.keys = << Str("0_a"), Str("0_c") >>

-----------------------------------------------------------------------------
(* The keys of a keyed repeater                                              *)

\* The key expression has pairwise different values on the items of the
\* target list, which without modifiers is the source.
DifferentKeyValues ==
    \A i, j \in DOMAIN Source :
        i # j => ~StrictEquals(Field(Source[i], "k"), Field(Source[j], "k"))

\* C12: after a pass over items on which the key expression has pairwise
\* different values, the keys that the repeater holds are pairwise different,
\* and so each has its entry of the index map.
C12_UniqueKeys ==
    (KeyedPass /\ DifferentKeyValues) =>
        /\ \A i, j \in DOMAIN binding.keys : binding.keys[i] = binding.keys[j] => i = j
        /\ \A i \in DOMAIN binding.keys : indexMap[binding.keys[i].s] = i - 1

-----------------------------------------------------------------------------
(* The order of a pass over a page                                           *)

\* The place of a directive in the order that is claimed for a pass.
ClaimedRank(kind) ==
    CASE kind = "if" -> 1
      [] kind = "each" -> 2
      [] kind = "for" -> 3
      [] kind = "interpolation" -> 4
      [] kind = "bind" -> 5
      [] kind = "attribute" -> 6
      [] kind = "class" -> 7
      [] kind = "style" -> 8

\* C16: within one pass the bindings are updated directive by directive in
\* the order if, each, for, interpolation, bind, attribute, class, style,
\* and of two data-bind bindings the one on the deeper element is updated
\* before the one on the shallower element.
C16_DirectiveOrder ==
    \A i, j \in DOMAIN updated :
        i < j =>
            /\ ClaimedRank(updated[i].kind) <= ClaimedRank(updated[j].kind)
            /\ (updated[i].kind = "bind" /\ updated[j].kind = "bind")
                   => updated[i].depth >= updated[j].depth

\* C16 (witness): a shallow data-bind, a deeper data-bind and a data-if were
\* registered in that order, and the pass updated the data-if, then the
\* deeper data-bind, then the shallow one.
C16_Witness ==
    /\ Len(page) = 3
    /\ page[1].kind = "bind" /\ page[1].depth = 1
    /\ page[2].kind = "bind" /\ page[2].depth = 2
    /\ page[3].kind = "if"
    /\ Len(updated) = 3
    /\ updated[1].id = 3 /\ updated[2].id = 2 /\ updated[3].id = 1
    /\ \A i \in DOMAIN updated : ~IsThrown(updated[i].value)

\* C18: when the evaluation of one binding's expression throws during a
\* pass, every other registered binding is still evaluated and updated in
\* that pass.
C18_OthersUpdated ==
    updated # <<>> =>
        \A i \in DOMAIN page :
            \E j \in DOMAIN updated : updated[j].id = page[i].id

-----------------------------------------------------------------------------
(* Forbidden segments                                                        *)

-----------------------------------------------------------------------------
(* The state and the objects of the page                                     *)

\* C22: a write by the code of the page to an object that getState returned
\* or to an object or array that it gave to setState changes nothing in the
\* state: neither the state nor the result of an evaluation ever holds what
\* the code wrote.
C22_NoSharedInstance ==
    /\ ~hasWritten(state)
    /\ \A i \in DOMAIN result : ~hasWritten(result[i])

\* C22 (the part on getState): no instance of the state is among those that
\* getState returned.
C22_GetStateCopies ==
    \A id \in refs : id >= CloneBase => id \notin instances(state)

\* A value without the identities of its instances.
RECURSIVE Plain(_)
Plain(x) ==
    IF x.t \in {"arr", "obj"}
    THEN [x EXCEPT !.id = 0, !.items = [i \in DOMAIN x.items |-> Plain(x.items[i])]]
    ELSE x

\* The names of the members of an object.
Names(x) == { x.keys[i] : i \in DOMAIN x.keys }

\* next is prev with the members of data merged in at the top level only.
ShallowMerged(prev, data, next) ==
    /\ Names(next) = { key \in Names(prev) \cup Names(data) :
                          IF key \in Names(data) THEN Member(data, key) # Undef ELSE TRUE }
    /\ \A key \in Names(next) :
          Plain(Member(next, key))
              = Plain(IF key \in Names(data) THEN Member(data, key) ELSE Member(prev, key))

\* C23: setState merges its argument into the state at the top level: a
\* member that the argument names has the given value afterwards and nothing
\* of its previous value, a member that it does not name keeps its value, and
\* a member that it gives as undefined is removed.
C23_ShallowMerge ==
    [][calls' # calls => \E data \in HeldUpdates : ShallowMerged(state, data, state')]_vars

\* C23 (what holds): members given as undefined are removed, members that are
\* not named keep their values, and a member given as a scalar or an array
\* has the given value.
C23_ScalarsAndArrays ==
    [][calls' # calls =>
          \E data \in HeldUpdates :
              /\ Names(state') = { key \in Names(state) \cup Names(data) :
                                     IF key \in Names(data) THEN Member(data, key) # Undef
                                     ELSE TRUE }
              /\ \A key \in Names(state') :
                    \/ key \in Names(data) /\ isPlainObject(Member(data, key))
                    \/ Plain(Member(state', key))
                           = Plain(IF key \in Names(data) THEN Member(data, key)
                                   ELSE Member(state, key))]_vars

-----------------------------------------------------------------------------
(* Two-way binding                                                           *)

\* C25: after the listener of a control with data-onchange="p = @value" has
\* run, the state holds at p the text that the user gave to the control, as
\* it is, or the checked state of a checkbox.
C25_RoundTrip ==
    (handler.type # "none" /\ handled # <<>>) =>
        RefLookup(state, Pieces(handler.target, ".", 1, ""), 1) = handled[Len(handled)].typed

\* C25 (what holds): the round trip of a text without a quotation mark, a
\* backslash or a dollar sign, and of a checked state.
C25_PlainTexts ==
    (handler.type # "none" /\ handled # <<>>) =>
        LET typed == handled[Len(handled)].typed
        IN (typed.t = "bool" \/ \A i \in 1..Len(typed.s) : Char(typed.s, i) \notin {"\"", "\\", "$"})
              => RefLookup(state, Pieces(handler.target, ".", 1, ""), 1) = typed

-----------------------------------------------------------------------------
(* Interpolations                                                            *)

\* C26: a text node with several interpolations is rendered with the value
\* of each interpolation's expression at its own position and the text
\* between them kept: "{{a}} {{b}} in cart." is value(a), a space, value(b),
\* " in cart.".
C26_EachAtItsPosition ==
    (binding.kind = "interpolation" /\ refreshed) =>
        binding.obj = RefRender(Binder, exp, 1)

\* C26 (what holds): a text node with one interpolation is rendered so.
C26_SingleInterpolation ==
    (binding.kind = "interpolation" /\ refreshed /\ IndexFrom(exp, "}}", 1) = lastClose(exp, 1)) =>
        binding.obj = RefRender(Binder, exp, 1)

-----------------------------------------------------------------------------
(* The event of setState                                                     *)

\* C27: every successful setState call is followed by the dispatch of a
\* jsbinder-stateupdated event on the root element.
C27_StateUpdated == SetStateStored ~> Dispatched("stateupdated")

\* C27 (what holds): the callback that follows a setState call ends without
\* such an event; what the passes dispatch are the events of the directives.
C27_OnlyDirectiveEvents ==
    \A i \in DOMAIN events : events[i].op \in {"innerHTML", "bind"}

-----------------------------------------------------------------------------
(* The order of the stages, as the documentation gives it                    *)

\* filter, then distinct, then sort, then skip, then limit.
RefTargetDistinctFirst(r, l) ==
    LET kept == IF r.where = null THEN l ELSE RefWhere(l)
        firsts == IF r.distinct = null THEN kept ELSE RefDistinct(kept)
        inOrder == IF r.orderby = null THEN firsts ELSE RefOrderBy(firsts)
        rest == IF r.skip = null THEN inOrder ELSE RefSkip(inOrder)
    IN IF r.limit = null THEN rest ELSE RefLimit(rest)

\* C28: the modifiers of data-each are evaluated in the order where, distinct,
\* orderby, skip, limit: the distinct stage takes its items from the filtered
\* list in the order of the source, before the list is sorted.
C28_DistinctBeforeSort ==
    KeyedPass =>
        binding.keys = [i \in 1..Len(RefTargetDistinctFirst(binding, Source)) |->
                           RefKey(RefTargetDistinctFirst(binding, Source)[i])]

\* C28 (what holds): the two orders give one list when the repeater has no
\* distinct or no orderby expression.
C28_SameWithoutBoth ==
    (KeyedPass /\ (binding.distinct = null \/ binding.orderby = null)) =>
        binding.keys = [i \in 1..Len(RefTargetDistinctFirst(binding, Source)) |->
                           RefKey(RefTargetDistinctFirst(binding, Source)[i])]

-----------------------------------------------------------------------------
(* distinct without orderby                                                  *)

\* A pass of a repeater with distinct and without orderby, skip and limit.
UnsortedDistinctPass == DistinctPass /\ binding.orderby = null

\* C29: with data-distinct and no data-orderby the repeater renders, of each
\* value of the distinct expression, the first item of the (filtered) source
\* that has it, and the items rendered are in the order of the source.
C29_FirstInSourceOrder ==
    UnsortedDistinctPass =>
        /\ binding.keys = [i \in 1..Len(RefDistinct(Candidates)) |->
                              RefKey(RefDistinct(Candidates)[i])]
        /\ \A i \in DOMAIN Candidates :
              Kept(Candidates[i]) <=>
                  \A j \in 1..(i - 1) : Field(Candidates[j], "t") # Field(Candidates[i], "t")
        /\ \A i, j \in DOMAIN Candidates :
              (i < j /\ Kept(Candidates[i]) /\ Kept(Candidates[j])) =>
                  PositionIn(binding.keys, RefKey(Candidates[i]))
                      < PositionIn(binding.keys, RefKey(Candidates[j]))

\* Such a pass over a source whose second and third items have one value has
\* kept the first and the second item, in that order.
C29_Witness ==
    /\ UnsortedDistinctPass
    /\ binding.where = null
    /\ Source = << ItemC, ItemB, ItemA >>
    /\ binding.keys = << Str("0_c"), Str("0_b") >>

-----------------------------------------------------------------------------
(* The range repeater                                                        *)

RangePass == refreshed /\ binding.kind = "for"

\* The bounds of the range, as the state has them.
RangeFrom == RefLookup(state, <<"lo">>, 1).n
RangeTo == RefLookup(state, <<"hi">>, 1).n

\* The integers from lo to hi that the predicate of the repeater lets
\* through (the odd ones, when it has a predicate), ascending.
RefRange(r, lo, hi) ==
    SelectSeq([i \in 1..(hi - lo + 1) |-> Num(lo + i - 1)],
              LAMBDA key : r.where = null \/ key.n % 2 = 1)

\* C30: after a pass of a range repeater with integer bounds its keys are the
\* integers from..to, both bounds included, that the where predicate lets
\* through, ascending; there is none when from > to; a key that stays has
\* kept its node; nothing is sorted, made distinct, skipped or limited.
C30_Range ==
    RangePass =>
        /\ binding.keys = RefRange(binding, RangeFrom, RangeTo)
        /\ RangeFrom > RangeTo => binding.keys = <<>> /\ dom = <<>>
        /\ \A key \in Surviving : NodeNow(key) = NodeBefore(key) /\ InDocument(NodeNow(key))
        /\ dom = binding.objs

\* A range repeater with the predicate has rendered 1..3 and then 2..3: the
\* key 3 has stayed with its node, and the upper bound is among the keys.
C30_Witness ==
    /\ RangePass
    /\ binding.where # null
    /\ before.keys = << Num(1), Num(3) >>
    /\ binding.keys = << Num(3) >>
    /\ RangeTo = 3
    /\ NodeNow(Num(3)) = NodeBefore(Num(3))

\* The range 3..1 has been rendered: no key.
C30_EmptyRange == RangePass /\ RangeFrom > RangeTo /\ before.keys # <<>> /\ binding.keys = <<>>

-----------------------------------------------------------------------------
(* The comparator of orderby                                                 *)

\* The number that a sort value stands for: that of a number, that of a
\* numeric string; -1 for a string that is no number.
RefNumber(v) ==
    IF v.t = "num" THEN v.n
    ELSE CASE v.s = "10" -> 10 [] v.s = "2" -> 2 [] OTHER -> -1

RefNumeric(v) == RefNumber(v) >= 0

\* The sort values of the source, and those of the rendered items in the
\* order of the keys.
SortValues == [i \in DOMAIN Source |-> Field(Source[i], "d")]

Rendered ==
    [i \in DOMAIN binding.keys |->
        Source[CHOOSE j \in DOMAIN Source : RefKey(Source[j]) = binding.keys[i]]]

SortedPass == KeyedPass /\ binding.orderby # null /\ Len(binding.keys) = Len(Source)

-----------------------------------------------------------------------------
(* The nodes of a keyed repeater after a pass                                *)

\* The node of a key after a pass: the node that the key had before the
\* pass, or the node that the pass has made for it.
NodeOfKey(key) ==
    IF Present(before.keys, key) THEN NodeBefore(key)
    ELSE events[CHOOSE i \in DOMAIN events :
                    events[i].op = "add" /\ events[i].key = key].obj

\* C35: after every pass of a keyed repeater with unique keys, the nodes
\* behind the start marker are those of the target keys in the order of the
\* target key list, the stored keys are the target keys, and the stored
\* nodes are as many, the i-th being the node of the i-th key.
C35_NodesInKeyOrder ==
    KeyedPass =>
        /\ binding.keys = [i \in 1..Len(RefTarget(binding, Source)) |->
                              RefKey(RefTarget(binding, Source)[i])]
        /\ Len(binding.objs) = Len(binding.keys)
        /\ \A i \in DOMAIN binding.keys :
              /\ EventsOf("add", binding.keys[i]) # {} \/ Present(before.keys, binding.keys[i])
              /\ binding.objs[i] = NodeOfKey(binding.keys[i])
        /\ dom = [i \in DOMAIN binding.keys |-> NodeOfKey(binding.keys[i])]

\* A pass has turned a, b, c into c, b, a: the three nodes are the same and
\* stand in the new order.
C35_Witness ==
    /\ KeyedPass
    /\ before.keys = << Str("0_a"), Str("0_b"), Str("0_c") >>
    /\ binding.keys = << Str("0_c"), Str("0_b"), Str("0_a") >>
    /\ dom = << before.objs[3], before.objs[2], before.objs[1] >>

-----------------------------------------------------------------------------
(* An expression that is one path                                            *)

\* The value that the state holds at the path of the expression.
ValueAtPath == RefLookup(state, Pieces(exp, ".", 1, ""), 1)

\* A value without regard to which instance it is.
RECURSIVE Content(_)
Content(x) == [x EXCEPT !.id = 0, !.items = [i \in DOMAIN x.items |-> Content(x.items[i])]]

\* C37: the evaluation of an expression that is one path and no operator
\* yields the value that the path resolves to, of whatever type, arrays of
\* any length and content among them.
C37_PathValue ==
    \A i \in DOMAIN result : Content(result[i]) = Content(ValueAtPath)

\* C37 (what holds): it does for a value that is no array and for an array of
\* several elements that neither holds an operator or function name where an
\* operation has it nor consists of one array.
C37_ScalarsAndPlainArrays ==
    \A i \in DOMAIN result :
        (~IsArray(ValueAtPath) \/ exp \in {"list", "none"})
            => Content(result[i]) = Content(ValueAtPath)

-----------------------------------------------------------------------------
(* Flags and microtasks                                                      *)

\* C38: whenever no callback of the scheduler runs, a microtask is pending
\* if #needsRefresh or #needsRegister is set, so that every setState, scan
\* and mutation is followed by a pass that starts after it.
C38_NoLostWakeUp ==
    task = "idle" => ((needsRefresh \/ needsRegister) => microtasks > 0)

\* C38 (what holds): it is so as long as no pass has thrown.
C38_UnlessThrown ==
    (task = "idle" /\ \A i \in DOMAIN passes : ~passes[i].threw) =>
        ((needsRefresh \/ needsRegister) => microtasks > 0)

-----------------------------------------------------------------------------
(* SpecRoot: the instances that the code of a page constructs on one root    *)
(*                                                                           *)
(* The page holds every instance it has constructed and calls scan() and     *)
(* dispose() on any of them, an instance that it has disposed of among them. *)

MaxInstances == 3
MaxSteps == 6

\* A JSBinder as its constructor leaves it (57-73): the signal of its
\* #abortController is not aborted, no directive has a binding.
NewBinder == [aborted |-> FALSE, bindings |-> 0]

\* hasInstance, were the attribute never found.
hasInstanceNever(r) == FALSE

\* root.attributes.hasOwnProperty("data-jsbinder") (67): the names of the
\* attributes of an element are own properties of its NamedNodeMap.
hasInstance(r) == r.jsbinder

\* #dispose (1333-1337): aborts the listeners of the instance and removes
\* the attribute of root, whichever instance has set it.
dispose(b) == [b EXCEPT !.aborted = TRUE]

\* new JSBinder() with the root of the page (57-73): throws when root has
\* the attribute, and sets it otherwise.
Construct ==
    /\ Len(history) < MaxSteps
    /\ IF hasInstance(root)
       THEN /\ history' = Append(history, [op |-> "throw", i |-> 0])
            /\ UNCHANGED <<root, binders>>
       ELSE /\ Len(binders) < MaxInstances
            /\ root' = [root EXCEPT !.jsbinder = TRUE]
            /\ binders' = Append(binders, NewBinder)
            /\ history' = Append(history, [op |-> "construct", i |-> Len(binders) + 1])
    /\ UNCHANGED <<exprVars, repeaterVars, schedVars, pageVars, handlerVars>>
    /\ UNCHANGED <<templates, renders, rounds, ifs, textContent>>

\* dispose() of an instance that the page holds (1389, 1333-1337).
Dispose ==
    /\ Len(history) < MaxSteps
    /\ \E i \in DOMAIN binders :
          /\ binders' = [binders EXCEPT ![i] = dispose(binders[i])]
          /\ root' = [root EXCEPT !.jsbinder = FALSE]
          /\ history' = Append(history, [op |-> "dispose", i |-> i])
    /\ UNCHANGED <<exprVars, repeaterVars, schedVars, pageVars, handlerVars>>
    /\ UNCHANGED <<templates, renders, rounds, ifs, textContent>>

\* scan() of an instance and the pass that follows, over a root with one
\* more element with a directive: #queryDirectives (476-481) finds it when
\* the closest element with the attribute is root.
ScanRoot ==
    /\ Len(history) < MaxSteps
    /\ \E i \in DOMAIN binders :
          /\ binders[i].bindings < MaxBindings
          /\ binders' = [binders EXCEPT ![i].bindings =
                            IF root.jsbinder THEN @ + 1 ELSE @]
          /\ history' = Append(history, [op |-> "scan", i |-> i])
    /\ UNCHANGED <<exprVars, repeaterVars, schedVars, pageVars, handlerVars>>
    /\ UNCHANGED <<root, templates, renders, rounds, ifs, textContent>>

InitRoot ==
    /\ exp = "p"
    /\ state = ExprState
    /\ functions = {}
    /\ indexMap = <<>>
    /\ memo = NewChangeDetector
    /\ checks = <<>>
    /\ pc = "idle"
    /\ tree = NoTree
    /\ result = <<>>
    /\ evlog = <<>>
    /\ NoRepeater

NextRoot == Construct \/ Dispose \/ ScanRoot

SpecRoot == InitRoot /\ [][NextRoot]_vars

\* The instances that dispose() was never called on.
Live == { i \in DOMAIN binders : ~binders[i].aborted }

DisposedOnce ==
    \A m, n \in DOMAIN history :
        (history[m].op = "dispose" /\ history[n].op = "dispose"
            /\ history[m].i = history[n].i) => m = n

-----------------------------------------------------------------------------
(* SpecItems: a repeater whose item holds an element with data-if            *)
(*                                                                           *)
(*   <li data-each="@x in items" data-key="@x.k"><b data-if="@x.v">..</b></li> *)
(*                                                                           *)
(* The item of key a is deserialized with data-if="items[{0_a}].v" (673);    *)
(* the #register that follows an addition (1329) gives the element its       *)
(* binding in #ifDirective.#bindings.  A binding is named by the number of   *)
(* the item node that holds its element.                                     *)

MaxSets == 2

Flagged(id, k, v) == Obj(id, <<"k", "v">>, << Str(k), Bool(v) >>)

FlaggedItems == { Flagged(21, "a", v) : v \in BOOLEAN } \cup { Flagged(22, "b", v) : v \in BOOLEAN }

\* The lists of items of different keys.
FlaggedLists ==
    UNION { { l \in [1..n -> FlaggedItems] : \A i, j \in 1..n : l[i].id = l[j].id => i = j } :
              n \in 0..2 }

FlaggedStates == { merge(EmptyState, Obj(0, <<"items">>, << Arr(2, l) >>), 1) : l \in FlaggedLists }

\* The record that #ifDirective.register pushes (521-526) for the element in
\* the item node: obj is the placeholder (present is false), the expression
\* is the item's, modified is new.  last is the action of the jsbinder-if
\* event that the binding dispatched last.
IfBinding(node, key) ==
    [node |-> node, key |-> key, exp |-> "items[{" \o key \o "}].v",
     modified |-> NewChangeDetector, present |-> FALSE, last |-> "none"]

\* The data-if event of a binding and the lookup #createPath made for it.
IfEvent(f, action) == [kind |-> "if", node |-> f.node, action |-> action, prev |-> f.last]
Lookup(f, imap, written) ==
    [kind |-> "lookup", node |-> f.node, key |-> f.key,
     index |-> IF f.key \in DOMAIN imap THEN imap[f.key] ELSE -1,
     written |-> f.key \in written]

\* binding.modified.check(result) (534)
checkIf(m, value) == checkChanged(m, value)

\* #ifDirective.refresh (529-547), from the k-th binding on.  written holds
\* the keys that #eachDirective.refresh has set in the index map in this pass.
RECURSIVE ifRefresh(_, _, _, _, _)
ifRefresh(b, fs, k, written, acc) ==
    LET f == fs[k]
        Next(g, ev, n) ==
            ifRefresh(b, [fs EXCEPT ![k] = g], k + 1, written,
                      [acc EXCEPT !.events = acc.events \o <<Lookup(f, b.indexMap, written)>> \o ev,
                                  !.counter = @ + n])
        Checked(shown) ==
            IF checkIf(f.modified, shown)
            THEN IF shown = Bool(TRUE)
                 THEN Next([f EXCEPT !.modified = checkMemo(@, shown), !.present = TRUE,
                                     !.last = "add"],
                           <<IfEvent(f, "add")>>, 1)
                 ELSE Next([f EXCEPT !.modified = checkMemo(@, shown), !.present = FALSE,
                                     !.last = "remove"],
                           <<IfEvent(f, "remove")>>, 0)
            ELSE Next(f, <<>>, 0)
        Evaluated(v) ==
            IF IsThrown(v) THEN [acc EXCEPT !.ifs = fs, !.thrown = TRUE]
            ELSE Checked(Bool(Truthy(v)))
    IN IF k > Len(fs) THEN [acc EXCEPT !.ifs = fs]
       ELSE Evaluated(evaluate(b, f.exp).v)

\* #ifDirective.register (512-527): the bindings whose node has left the
\* document are dropped, the elements with data-if of the item nodes that
\* have none yet get one, in document order.
RECURSIVE ifRegister(_, _, _, _)
ifRegister(fs, r, d, k) ==
    LET kept == SelectSeq(fs, LAMBDA f : \E i \in DOMAIN d : d[i] = f.node)
        Has(node) == \E i \in DOMAIN kept : kept[i].node = node
        KeyAt(node) == r.keys[CHOOSE i \in DOMAIN r.objs : r.objs[i] = node]
    IN IF k > Len(d) THEN kept
       ELSE IF Has(d[k]) THEN ifRegister(kept, r, d, k + 1)
       ELSE ifRegister(Append(kept, IfBinding(d[k], KeyAt(d[k]).s)), r, d, k + 1)

\* What a pass over the page yields.
PassOver(r, d, c, imap, fs, ev, n, thrown) ==
    [binding |-> r, dom |-> d, created |-> c, indexMap |-> imap, ifs |-> fs,
     events |-> ev, rounds |-> n, thrown |-> thrown]

\* The keys of the index map that #eachDirective.refresh wrote: all it has made.
WrittenKeys(r) == { r.keys[i].s : i \in DOMAIN r.keys }

\* #refresh (1326-1331) of the page: the data-if bindings, then the repeater;
\* when an element was added, #register (1321-1324) runs and refreshes
\* again.  n counts the calls of #refresh, written the keys set in this pass.
RECURSIVE refreshItems(_, _, _, _, _, _, _, _)
refreshItems(b, r, d, c, fs, ev, n, written) ==
    LET Repeated(i, e) ==
            IF e.thrown
            THEN PassOver(r, d, c, e.indexMap, i.ifs, ev \o i.events, n, TRUE)
            ELSE IF i.counter + e.counter = 0
            THEN PassOver(e.binding, e.dom, e.created, e.indexMap, i.ifs,
                          ev \o i.events, n, FALSE)
            ELSE refreshItems([b EXCEPT !.indexMap = e.indexMap], e.binding, e.dom,
                              e.created, ifRegister(i.ifs, e.binding, e.dom, 1),
                              ev \o i.events, n + 1, written \cup WrittenKeys(e.binding))
        Ifs(i) ==
            IF i.thrown THEN PassOver(r, d, c, b.indexMap, i.ifs, ev \o i.events, n, TRUE)
            ELSE Repeated(i, eachRefresh(b, r, d, c))
    IN Ifs(ifRefresh(b, fs, 1, written,
                     [ifs |-> fs, events |-> <<>>, counter |-> 0, thrown |-> FALSE]))

\* binder.setState(data) with another list of items.
SetItems ==
    /\ calls < MaxSets
    /\ calls' = calls + 1
    /\ \E st \in FlaggedStates :
          /\ st # state
          /\ state' = st
    /\ refreshed' = FALSE
    /\ history' = <<>>
    /\ UNCHANGED <<exp, tree, functions, indexMap, result, evlog, memo, checks, pc>>
    /\ UNCHANGED <<binding, dom, created, events, before, schedVars, pageVars, handlerVars>>
    /\ UNCHANGED <<root, binders, templates, renders, rounds, ifs, textContent>>

\* The pass that the microtask of #queueTasks runs after a setState: #refresh.
PassItems ==
    /\ ~refreshed
    /\ \E x \in { refreshItems(Binder, binding, dom, created, ifs, <<>>, 1, {}) } :
          /\ binding' = x.binding
          /\ dom' = x.dom
          /\ created' = x.created
          /\ indexMap' = x.indexMap
          /\ ifs' = x.ifs
          /\ history' = x.events
          /\ rounds' = x.rounds
    /\ refreshed' = TRUE
    /\ UNCHANGED <<exp, tree, state, functions, result, evlog, memo, checks, pc>>
    /\ UNCHANGED <<events, before, calls, schedVars, pageVars, handlerVars>>
    /\ UNCHANGED <<root, binders, templates, renders, textContent>>

\* The page is registered: the repeater has its binding, no item is rendered.
InitItems ==
    /\ binding = EachBinding(null, null, null, null, null)
    /\ state \in FlaggedStates
    /\ functions = {}
    /\ indexMap = <<>>
    /\ exp = ""
    /\ tree = NoTree
    /\ result = <<>>
    /\ evlog = <<>>
    /\ memo = NewChangeDetector
    /\ checks = <<>>
    /\ pc = "idle"
    /\ dom = <<>>
    /\ created = 0
    /\ events = <<>>
    /\ before = [keys |-> <<>>, objs |-> <<>>]
    /\ refreshed = FALSE
    /\ calls = 0
    /\ NoScheduler
    /\ NoPage
    /\ NoHandler

NextItems == SetItems \/ PassItems

SpecItems == InitItems /\ [][NextItems]_vars

-----------------------------------------------------------------------------
(* The events of data-if                                                     *)

\* C39: a jsbinder-if event with action 'remove' is dispatched only by a
\* binding whose preceding jsbinder-if event had action 'add'; the first
\* event of a binding is never 'remove'.
C39_RemoveFollowsAdd ==
    \A i \in DOMAIN history :
        (history[i].kind = "if" /\ history[i].action = "remove") => history[i].prev = "add"

\* C39 (what holds): an 'add' is never preceded by an 'add', and a 'remove'
\* is the first event of its binding or preceded by an 'add'.
C39_EventsAlternate ==
    \A i \in DOMAIN history :
        history[i].kind = "if" =>
            IF history[i].action = "add" THEN history[i].prev # "add"
            ELSE history[i].prev # "remove"

-----------------------------------------------------------------------------
(* The index map and the bindings inside an item                             *)

\* The index in state.items of the item that the key of the index map stands
\* for, -1 when the list holds no such item.
CurrentIndex(key) ==
    LET source == Member(state, "items").items
        hits == { i \in DOMAIN source : "0_" \o Member(source[i], "k").s = key }
    IN IF hits = {} THEN -1 ELSE (CHOOSE i \in hits : TRUE) - 1

\* The lookups of the pass that ran last, when the state is as it was then,
\* for bindings whose item is in the list.
Lookups ==
    { i \in DOMAIN history : history[i].kind = "lookup" /\ CurrentIndex(history[i].key) # -1 }

\* C32: the entry of the index map that a binding inside a repeated item
\* reads during a pass was written in that pass and is the current index of
\* the item in the source collection.
C32_FreshLookups ==
    \A i \in Lookups :
        history[i].written /\ history[i].index = CurrentIndex(history[i].key)

\* C32 (the part on the index alone): the entry read is the current index.
C32_CurrentIndex ==
    \A i \in Lookups : history[i].index = CurrentIndex(history[i].key)

\* C32 (what holds): an entry that was written in the pass is the current
\* index, and the entries are so when the pass ends.
C32_FreshOnceWritten ==
    /\ \A i \in Lookups : history[i].written => history[i].index = CurrentIndex(history[i].key)
    /\ refreshed => \A i \in DOMAIN binding.keys :
                        indexMap[binding.keys[i].s] = CurrentIndex(binding.keys[i].s)

\* The bindings whose element or placeholder is in the document.
Attached == { i \in DOMAIN ifs : \E k \in DOMAIN dom : dom[k] = ifs[i].node }

\* A pass has completed, no flag is set and no microtask is pending.
Quiescent == refreshed

\* C36: at quiescence the element of every data-if binding inside a repeated
\* item is in the document exactly when its expression, evaluated against
\* the state and the index map, is truthy.
C36_Converged ==
    Quiescent =>
        \A i \in Attached : ifs[i].present <=> Truthy(evaluate(Binder, ifs[i].exp).v)

\* C36 (what holds): it is so after the first pass, and after a pass that
\* rendered an added element, which is followed by a second #refresh.
C36_ConvergedAfterAddition ==
    (Quiescent /\ rounds > 1) =>
        \A i \in Attached : ifs[i].present <=> Truthy(evaluate(Binder, ifs[i].exp).v)

-----------------------------------------------------------------------------
(* SpecRender: a page of templates and of elements with data-render          *)
(*                                                                           *)
(* The html of a template is the list of the elements with data-render that  *)
(* it holds outside any other directive, each with data-source="@data".  A   *)
(* step is one call of #refresh within the pass that the callback of the     *)
(* scheduler started; rounds counts the calls and stays at MaxRounds.        *)

MaxRounds == 4

TemplateKeys == {"t", "u"}

\* The html of a template: no element with data-render, or one.
TemplateHtmls == {<<>>} \cup { <<k>> : k \in TemplateKeys }

\* #templates after register (1260-1275): some of the keys, each with its html.
TemplateSets == UNION { [keys -> TemplateHtmls] : keys \in SUBSET TemplateKeys }

\* An element with data-render and data-source, or without data-source.
RenderElements == { [key |-> k, source |-> s] : k \in TemplateKeys, s \in {"tree", null} }

RenderLists == {<<>>} \cup { <<x>> : x \in RenderElements }
                  \cup { <<x, y>> : x \in RenderElements, y \in RenderElements }

\* Whether refresh renders the element (1284-1291): its template is
\* registered and it has a source.
Renders(ts, x) == x.key \in DOMAIN ts /\ x.source # null

\* obj.innerHTML = template.replace(@data, source) (1293): the elements with
\* data-render that the element holds afterwards.
InnerRenders(ts, x) == [i \in DOMAIN ts[x.key] |-> [key |-> ts[x.key][i], source |-> x.source]]

\* #templateDirective.refresh (1280-1299) over the elements from k on: the
\* attributes of each are consumed; acc is [renders, counter].
RECURSIVE templateRefresh(_, _, _, _)
templateRefresh(ts, xs, k, acc) ==
    IF k > Len(xs) THEN acc
    ELSE IF Renders(ts, xs[k])
    THEN templateRefresh(ts, xs, k + 1,
                         [renders |-> acc.renders \o InnerRenders(ts, xs[k]),
                          counter |-> acc.counter + 1])
    ELSE templateRefresh(ts, xs, k + 1, acc)

\* The microtask of #queueTasks starts the pass: #register, which calls
\* #refresh (1312-1324).
StartPass ==
    /\ task = "idle"
    /\ task' = "registering"
    /\ rounds' = 0
    /\ UNCHANGED <<exprVars, repeaterVars, pageVars, handlerVars>>
    /\ UNCHANGED <<needsRegister, needsRefresh, microtaskQueued, microtasks, turn, job, passes>>
    /\ UNCHANGED <<root, binders, templates, renders, ifs, history, textContent>>

\* One call of #refresh (1326-1331): no other directive has a binding, so
\* count is what #templateDirective.refresh renders; when it is above 0,
\* #register runs and calls #refresh again, else the pass returns.
RefreshRound ==
    /\ task = "registering"
    /\ \E x \in { templateRefresh(templates, renders, 1, [renders |-> <<>>, counter |-> 0]) } :
          /\ renders' = x.renders
          /\ task' = IF x.counter > 0 THEN "registering" ELSE "done"
    /\ rounds' = IF rounds < MaxRounds THEN rounds + 1 ELSE rounds
    /\ UNCHANGED <<exprVars, repeaterVars, pageVars, handlerVars>>
    /\ UNCHANGED <<needsRegister, needsRefresh, microtaskQueued, microtasks, turn, job, passes>>
    /\ UNCHANGED <<root, binders, templates, ifs, history, textContent>>

InitRender ==
    /\ exp = "p"
    /\ state = ExprState
    /\ functions = {}
    /\ indexMap = <<>>
    /\ memo = NewChangeDetector
    /\ checks = <<>>
    /\ pc = "idle"
    /\ tree = NoTree
    /\ result = <<>>
    /\ evlog = <<>>
    /\ binding = [kind |-> "none"]
    /\ dom = <<>>
    /\ created = 0
    /\ events = <<>>
    /\ before = [keys |-> <<>>, objs |-> <<>>]
    /\ refreshed = FALSE
    /\ calls = 0
    /\ NoScheduler
    /\ page = <<>>
    /\ updated = <<>>
    /\ ifs = <<>>
    /\ history = <<>>
    /\ NoInstance
    /\ NoHandler
    /\ templates \in TemplateSets
    /\ renders \in RenderLists
    /\ rounds = 0
    /\ textContent = ""

NextRender == StartPass \/ RefreshRound

SpecRender == InitRender /\ [][NextRender]_vars

\* The calls of a pass follow each other without a turn of the event loop in
\* between: a pass that has begun takes its next step.
SpecRenderLive == SpecRender /\ WF_vars(StartPass) /\ WF_vars(RefreshRound)

\* C33: in a pass that the scheduler has started, #refresh is called a small
\* number of times, fewer than MaxRounds, whatever the templates and the
\* page are.
C33_FewRounds == rounds < MaxRounds

\* C33 (the part on termination): a pass that has begun returns.
C33_PassTerminates == (task = "registering") ~> (task = "done")

\* A template is rendered inside its own html, directly or through another.
RECURSIVE RendersItself(_, _, _)
RendersItself(ts, k, n) ==
    /\ k \in DOMAIN ts
    /\ \E i \in DOMAIN ts[k] :
          \/ n = 0
          \/ RendersItself(ts, ts[k][i], n - 1)

Cyclic == \E k \in DOMAIN templates : RendersItself(templates, k, Cardinality(TemplateKeys))

\* C33 (what holds): when no template is rendered inside its own html, the
\* pass ends and #refresh is called once more than the templates are deep.
C33_AcyclicTerminates ==
    /\ (task = "registering" /\ ~Cyclic) ~> (task = "done")
    /\ [](~Cyclic => rounds <= Cardinality(TemplateKeys) + 1)

-----------------------------------------------------------------------------
(* SpecScan: a text node with interpolations over passes that register       *)
(*                                                                           *)
(* exp is the text of the node in the markup, textContent what the node      *)
(* holds, page the #bindings of the interpolation directive.  scan() is      *)
(* followed by a pass with #register, setState() by one without.             *)

\* The states of the page: the value at p is a text with an interpolation in
\* two of them.
ScanStates ==
    InterpStates \cup
    {Obj(1, <<"p", "q">>, << Str("{{q.r}}"), Obj(2, <<"r">>, <<Str("tea")>>) >>),
     Obj(1, <<"p", "q">>, << Str("{{ p }}"), Obj(2, <<"r">>, <<Str("s")>>) >>)}

ScanTexts == {"{{p}}", "Hi {{q.r}}!", "{{p}} {{q.r}} in cart."}

\* The record that register pushes for the text node (840-846).
TextRecord(pushed) ==
    [type |-> pushed.type, expressions |-> pushed.expressions, text |-> pushed.text,
     modified |-> NewChangeDetector]

\* scanNode (836-848) at the text node, which is in the document: a node
\* whose textContent matches gets a binding and is emptied.
scanNode(bs, content) ==
    IF matchInterpolations(content, 1) # <<>>
    THEN [bindings |-> Append(bs, TextRecord(textBinding(content))), textContent |-> ""]
    ELSE [bindings |-> bs, textContent |-> content]

\* refresh of the interpolation directive (888-899) from the k-th binding
\* on: each binding whose text has changed writes it to the node.  Yields
\* [bindings, textContent, events, thrown].
RECURSIVE refreshTexts(_, _, _, _)
refreshTexts(b, bs, k, acc) ==
    LET Made(x) ==
            IF IsThrown(x) THEN [acc EXCEPT !.bindings = bs, !.thrown = TRUE]
            ELSE IF checkChanged(bs[k].modified, x)
            THEN refreshTexts(b, [bs EXCEPT ![k].modified = checkMemo(@, x)], k + 1,
                              [acc EXCEPT !.textContent = x.s,
                                          !.events = Append(@, [op |-> "bind", value |-> x.s])])
            ELSE refreshTexts(b, bs, k + 1, acc)
    IN IF k > Len(bs) THEN [acc EXCEPT !.bindings = bs]
       ELSE Made(interpolate(b, bs[k].expressions, 1, bs[k].text))

\* The pass after scan(): #register (1321-1324), that is register of the
\* interpolation directive and #refresh.
passWithRegister(b, bs, content) ==
    LET Scanned(x) ==
            refreshTexts(b, x.bindings, 1,
                         [bindings |-> x.bindings, textContent |-> x.textContent,
                          events |-> <<>>, thrown |-> FALSE])
    IN Scanned(scanNode(bs, content))

\* binder.scan() and the pass that its microtask runs.
ScanTextPass ==
    /\ calls < MaxCalls
    /\ calls' = calls + 1
    /\ \E x \in { passWithRegister(Binder, page, textContent) } :
          /\ page' = x.bindings
          /\ textContent' = x.textContent
          /\ events' = events \o x.events
    /\ refreshed' = TRUE
    /\ UNCHANGED <<exp, tree, state, functions, indexMap, result, evlog, memo, checks, pc>>
    /\ UNCHANGED <<binding, dom, created, before, schedVars, updated, handlerVars>>
    /\ UNCHANGED <<root, binders, templates, renders, rounds, ifs, history>>

\* binder.setState(data) with the members of another of the states and the
\* pass that its microtask runs: #refresh.
SetStateTextPass ==
    /\ calls < MaxCalls
    /\ calls' = calls + 1
    /\ \E st \in ScanStates \ {state} :
          /\ state' = st
          /\ \E x \in { refreshTexts([Binder EXCEPT !.state = st], page, 1,
                                     [bindings |-> page, textContent |-> textContent,
                                      events |-> <<>>, thrown |-> FALSE]) } :
                /\ page' = x.bindings
                /\ textContent' = x.textContent
                /\ events' = events \o x.events
    /\ refreshed' = TRUE
    /\ UNCHANGED <<exp, tree, functions, indexMap, result, evlog, memo, checks, pc>>
    /\ UNCHANGED <<binding, dom, created, before, schedVars, updated, handlerVars>>
    /\ UNCHANGED <<root, binders, templates, renders, rounds, ifs, history>>

\* The page as loaded: the node holds the text of the markup.
InitScan ==
    /\ exp \in ScanTexts
    /\ state \in ScanStates
    /\ functions = FunctionNames
    /\ indexMap = <<>>
    /\ memo = NewChangeDetector
    /\ checks = <<>>
    /\ pc = "idle"
    /\ tree = NoTree
    /\ result = <<>>
    /\ evlog = <<>>
    /\ binding = [kind |-> "none"]
    /\ dom = <<>>
    /\ created = 0
    /\ events = <<>>
    /\ before = [keys |-> <<>>, objs |-> <<>>]
    /\ refreshed = FALSE
    /\ calls = 0
    /\ NoScheduler
    /\ page = <<>>
    /\ updated = <<>>
    /\ ifs = <<>>
    /\ history = <<>>
    /\ NoInstance
    /\ NoHandler
    /\ templates = <<>>
    /\ renders = <<>>
    /\ rounds = 0
    /\ textContent = exp

NextScan == ScanTextPass \/ SetStateTextPass

SpecScan == InitScan /\ [][NextScan]_vars

\* C40: the interpolation directive holds at most one binding for the text
\* node, with the expressions that the markup had at the first registration:
\* text that a binding wrote is not registered by a later register pass.
C40_OneBindingPerNode ==
    /\ Len(page) <= 1
    /\ \A i \in DOMAIN page : page[i].expressions = textBinding(exp).expressions

\* C40 (what holds): it is so as long as no text that was written to the
\* node holds an interpolation.
C40_UnlessWrittenTextMatches ==
    (\A i \in DOMAIN events : matchInterpolations(events[i].value, 1) = <<>>)
        => C40_OneBindingPerNode

=============================================================================
